---------------------------- MODULE Spec2Model ----------------------------
(***************************************************************************)
(* A model of the xmorph Go package: meshes kept in libmorph storage,      *)
(* mesh construction and editing, mesh interpolation, image warping and    *)
(* image morphing.                                                         *)
(*                                                                         *)
(* The Go code is a wrapper around the C library libmorph.  The Go side    *)
(* (argument checks, dispatch on the image type, which meshes and pixel    *)
(* arrays are handed to the library, the blending of two warped images)    *)
(* is translated from the Go source.  The library calls themselves         *)
(* (meshNew, meshCopy, meshInterpolate, meshCompatibilityCheck,            *)
(* meshGetx, meshGety, meshSetNoundo, meshLineAdd, meshLineDelete,         *)
(* meshScale, meshFunctionalize, warp_image_versatile) have no source      *)
(* here; they are modelled by their contract as the specification and the  *)
(* package's tests state it.                                               *)
(*                                                                         *)
(* Two callers are modelled.  Spec is a caller that holds two meshes and   *)
(* two images and interpolates, warps and morphs.  MeshSpec is a caller    *)
(* that builds a mesh, copies it and edits the two.                        *)
(*                                                                         *)
(* Numbers.  A mesh coordinate is a float64 in the code.  The model keeps  *)
(* a coordinate as an integer count of 1/TDen units, and an interpolation  *)
(* fraction t as k/TDen, TDen a power of two.  User meshes have integer    *)
(* coordinates, so every product and sum the code forms is a dyadic        *)
(* rational that float64 represents exactly: the model's exact arithmetic  *)
(* and the code's floating point agree on every value the model reaches.   *)
(***************************************************************************)
EXTENDS Integers, Sequences, FiniteSets, TLC

VARIABLES
  heap,    \* libmorph's mesh storage: handle -> cell
  heap0,   \* the storage as it was when the last call started
  objs,    \* the caller's Go *Mesh values: a, b, and r (a result)
  sImg,    \* the caller's first image
  dImg,    \* the caller's second image
  last     \* the last call: its arguments and everything it returned

vars == <<heap, heap0, objs, sImg, dImg, last>>

---------------------------------------------------------------------------
(* Bounds and program constants *)

\* a mesh has at least MinDim points in each direction
MinDim == 4

\* fractions are k/TDen with TDen = 2^TBits
TBits == 3

TDen == 2 ^ TBits

\* how many libmorph meshes can be allocated at once
MaxMeshes == 4

\* the largest value of a uint8 channel
MaxU8 == 255

\* distance between neighbouring points of a regular test grid (whole units)
Step == 10

Handles == 1 .. MaxMeshes

\* A Go *Mesh whose C pointer is nil
NilHandle == 0

\* interpolation fractions the caller passes: -1/TDen .. 1 + 1/TDen
Fractions == (0 - 1) .. (TDen + 1)

\* the two values of a Direction
Vertical == 1

Horizontal == 2

\* The width of a C int.  It is 32 in the build; the model keeps the
\* conversion's wrap-around at a width its own integers can hold.
CIntBits == 8

---------------------------------------------------------------------------
(* Points and grids: the [][]Point a caller passes to MeshFromPoints *)

\* a whole coordinate v in 1/TDen units
U(v) == v * TDen

\* A regular nx-by-ny grid, the inner point of row 2, column 2 moved by d
Grid(nx, ny, d) ==
  [r \in 1 .. ny |->
    [c \in 1 .. nx |->
      IF r = 2 /\ c = 2
        THEN [X |-> U((c - 1) * Step + d), Y |-> U((r - 1) * Step + d)]
        ELSE [X |-> U((c - 1) * Step), Y |-> U((r - 1) * Step)]]]

\* The grids the caller builds meshes from
Grids == {Grid(MinDim, MinDim, 0), Grid(MinDim, MinDim, 3), Grid(MinDim + 1, MinDim, 0)}

---------------------------------------------------------------------------
(* libmorph mesh storage *)

FreeCell == [tag |-> "free"]

\* An allocated mesh that no Go value refers to any more.  It stays
\* allocated (nothing calls meshUnref on it); its contents can no longer
\* be read by the program, so the cell records only that it is allocated.
LostCell == [tag |-> "lost"]

IsMesh(c) == c.tag = "mesh"

FreeHandles(h) == {i \in Handles : h[i].tag = "free"}

Zeros(n) == [i \in 1 .. n |-> 0]

\* What meshNew does when asked for fewer than 4 points in a direction is
\* not decided by the Go code: it allocates what was asked, or raises the
\* short dimension to 4, or returns no mesh.
LibNewChoices == {"asis", "raised", "null"}

AtLeastMin(n) == IF n < MinDim THEN MinDim ELSE n

\* meshNew(nx, ny): a fresh mesh with all coordinates zero, at the first free
\* handle; sel is the library's choice for a request below 4x4
meshNew(h, nx, ny, sel) ==
  LET p == CHOOSE i \in FreeHandles(h) : \A j \in FreeHandles(h) : i <= j
      small == nx < MinDim \/ ny < MinDim
      cx == IF small /\ sel = "raised" THEN AtLeastMin(nx) ELSE nx
      cy == IF small /\ sel = "raised" THEN AtLeastMin(ny) ELSE ny
  IN IF small /\ sel = "null" THEN [heap |-> h, p |-> NilHandle]
     ELSE [heap |-> [h EXCEPT ![p] = [tag |-> "mesh", nx |-> cx, ny |-> cy,
                                       x |-> Zeros(cx * cy), y |-> Zeros(cx * cy)]],
           p |-> p]

\* meshCopy(dst, src): the x and y arrays of src are copied into dst
meshCopy(h, dst, src) ==
  [h EXCEPT ![dst] = [tag |-> "mesh", nx |-> h[src].nx, ny |-> h[src].ny,
                      x |-> h[src].x, y |-> h[src].y]]

\* meshCompatibilityCheck(m1, m2): 0 when the two meshes have the same nx and ny
meshCompatibilityCheck(c1, c2) ==
  IF c1.nx # c2.nx THEN 1 ELSE IF c1.ny # c2.ny THEN 2 ELSE 0

\* meshInterpolate(out, m1, m2, t): out[i] = (1-t)*m1[i] + t*m2[i], written into out
meshInterpolate(h, out, m1, m2, k) ==
  LET n == h[m1].nx * h[m1].ny
  IN [h EXCEPT ![out].x = [i \in 1 .. n |-> ((TDen - k) * h[m1].x[i] + k * h[m2].x[i]) \div TDen],
               ![out].y = [i \in 1 .. n |-> ((TDen - k) * h[m1].y[i] + k * h[m2].y[i]) \div TDen]]

\* meshUnref(m): the storage is released
meshUnref(h, p) == [h EXCEPT ![p] = FreeCell]

\* A mesh whose last Go reference goes out of scope without Free
Lose(h, p) == [h EXCEPT ![p] = LostCell]

---------------------------------------------------------------------------
(* The Go Mesh type and its constructors *)

NilMesh == [NX |-> 0, NY |-> 0, mesh |-> NilHandle]

\* NewEmptyMesh(nx, ny): the Go value carries nx and ny as given and whatever
\* pointer meshNew returned
NewEmptyMesh(h, nx, ny, sel) ==
  CHOOSE res \in {[heap |-> a.heap, m |-> [NX |-> nx, NY |-> ny, mesh |-> a.p]] :
                  a \in {meshNew(h, nx, ny, sel)}} : TRUE

\* a bug MeshFromPoints could have: only rows shorter than the first are refused
MeshFromPointsLongRows(h, sl) ==
  IF Len(sl) < MinDim \/ Len(sl[1]) < MinDim
    THEN [heap |-> h, m |-> NilMesh, panic |-> TRUE]
  ELSE LET nx == Len(sl[1])
           ny == Len(sl)
       IN IF \E r \in 1 .. ny : Len(sl[r]) < nx
            THEN [heap |-> h, m |-> NilMesh, panic |-> TRUE]
          ELSE LET e == NewEmptyMesh(h, nx, ny, "asis")
                   np == nx * ny
               IN [heap |-> [e.heap EXCEPT
                              ![e.m.mesh].x = [i \in 1 .. np |-> sl[((i - 1) \div nx) + 1][((i - 1) % nx) + 1].X],
                              ![e.m.mesh].y = [i \in 1 .. np |-> sl[((i - 1) \div nx) + 1][((i - 1) % nx) + 1].Y]],
                   m |-> e.m, panic |-> FALSE]

\* MeshFromPoints(sl): panics on a grid below 4x4 or with rows of unequal
\* length, otherwise stores the points row by row
MeshFromPoints(h, sl) ==
  IF Len(sl) < MinDim \/ Len(sl[1]) < MinDim
    THEN [heap |-> h, m |-> NilMesh, panic |-> TRUE]
  ELSE LET nx == Len(sl[1])
           ny == Len(sl)
       IN IF \E r \in 1 .. ny : Len(sl[r]) # nx
            THEN [heap |-> h, m |-> NilMesh, panic |-> TRUE]
          ELSE LET e == NewEmptyMesh(h, nx, ny, "asis")
                   np == nx * ny
               IN [heap |-> [e.heap EXCEPT
                              ![e.m.mesh].x = [i \in 1 .. np |-> sl[((i - 1) \div nx) + 1][((i - 1) % nx) + 1].X],
                              ![e.m.mesh].y = [i \in 1 .. np |-> sl[((i - 1) \div nx) + 1][((i - 1) % nx) + 1].Y]],
                   m |-> e.m, panic |-> FALSE]

\* a bug Copy could have: the copy refers to the source's storage
CopyShared(h, m) == [heap |-> h, m |-> m]

\* Copy: a new mesh of the source's dimensions, then meshCopy
Copy(h, m) ==
  CHOOSE res \in {[heap |-> meshCopy(e.heap, e.m.mesh, m.mesh), m |-> e.m] :
                  e \in {NewEmptyMesh(h, h[m.mesh].nx, h[m.mesh].ny, "asis")}} : TRUE

\* a bug InterpolateMeshes could have: the two meshes swapped in the library call
InterpolateMeshesSwapped(h, m1, m2, k) ==
  IF k < 0 \/ k > TDen
    THEN [heap |-> h, err |-> TRUE, m |-> NilMesh]
  ELSE IF meshCompatibilityCheck(h[m1.mesh], h[m2.mesh]) # 0
    THEN [heap |-> h, err |-> TRUE, m |-> NilMesh]
  ELSE CHOOSE res \in {[heap |-> meshInterpolate(c.heap, c.m.mesh, m2.mesh, m1.mesh, k),
                          err |-> FALSE, m |-> c.m] : c \in {Copy(h, m1)}} : TRUE

\* a bug InterpolateMeshes could have: an out-of-range fraction clamped, not refused
InterpolateMeshesClamped(h, m1, m2, k) ==
  LET kk == IF k < 0 THEN 0 ELSE IF k > TDen THEN TDen ELSE k
  IN IF meshCompatibilityCheck(h[m1.mesh], h[m2.mesh]) # 0
       THEN [heap |-> h, err |-> TRUE, m |-> NilMesh]
     ELSE CHOOSE res \in {[heap |-> meshInterpolate(c.heap, c.m.mesh, m1.mesh, m2.mesh, kk),
                             err |-> FALSE, m |-> c.m] : c \in {Copy(h, m1)}} : TRUE

\* InterpolateMeshes(m1, m2, t)
InterpolateMeshes(h, m1, m2, k) ==
  IF k < 0 \/ k > TDen
    THEN [heap |-> h, err |-> TRUE, m |-> NilMesh]
  ELSE IF meshCompatibilityCheck(h[m1.mesh], h[m2.mesh]) # 0
    THEN [heap |-> h, err |-> TRUE, m |-> NilMesh]
  ELSE CHOOSE res \in {[heap |-> meshInterpolate(c.heap, c.m.mesh, m1.mesh, m2.mesh, k),
                          err |-> FALSE, m |-> c.m] : c \in {Copy(h, m1)}} : TRUE

\* Free: meshUnref, then the Go value's pointer is nil
Free(h, m) == [heap |-> meshUnref(h, m.mesh), m |-> [m EXCEPT !.mesh = NilHandle]]

---------------------------------------------------------------------------
(* Mesh editing: libmorph's part *)

\* position of the point at column col, row row (both from 0) in a cell's x and y
CellAt(c, col, row) == row * c.nx + col + 1

\* meshGetx(m, x, y), meshGety(m, x, y)
meshGetx(c, col, row) == c.x[CellAt(c, col, row)]

meshGety(c, col, row) == c.y[CellAt(c, col, row)]

\* meshSetNoundo(m, x, y, px, py): one point is overwritten
meshSetNoundo(h, p, col, row, px, py) ==
  [h EXCEPT ![p].x[CellAt(h[p], col, row)] = px,
            ![p].y[CellAt(h[p], col, row)] = py]

\* a value the fraction k/TDen of the way from a to b
Between(a, b, k) == a + ((k * (b - a)) \div TDen)

\* the model's fixed-point numbers hold the value between a and b exactly
Representable(a, b, k) == (k * (b - a)) % TDen = 0

\* the coordinates xs of cell c with a line added after line i, direction d
\* (Vertical: a column, otherwise a row)
WithLine(c, xs, i, k, d) ==
  IF d = Vertical
    THEN [j \in 1 .. (c.nx + 1) * c.ny |->
           LET col == (j - 1) % (c.nx + 1)
               row == (j - 1) \div (c.nx + 1)
           IN IF col <= i THEN xs[CellAt(c, col, row)]
              ELSE IF col = i + 1
                THEN Between(xs[CellAt(c, i, row)], xs[CellAt(c, i + 1, row)], k)
              ELSE xs[CellAt(c, col - 1, row)]]
    ELSE [j \in 1 .. c.nx * (c.ny + 1) |->
           LET col == (j - 1) % c.nx
               row == (j - 1) \div c.nx
           IN IF row <= i THEN xs[CellAt(c, col, row)]
              ELSE IF row = i + 1
                THEN Between(xs[CellAt(c, col, i)], xs[CellAt(c, col, i + 1)], k)
              ELSE xs[CellAt(c, col, row - 1)]]

\* meshLineAdd(m, i, f, d): a line is inserted between lines i and i+1, each
\* of its points the fraction f of the way between its two neighbours
meshLineAdd(h, p, i, k, d) ==
  IF i < 0 \/ i >= (IF d = Vertical THEN h[p].nx ELSE h[p].ny) - 1
    THEN [heap |-> h, r |-> 1]
  ELSE [heap |-> [h EXCEPT ![p] = [tag |-> "mesh",
                    nx |-> IF d = Vertical THEN h[p].nx + 1 ELSE h[p].nx,
                    ny |-> IF d = Vertical THEN h[p].ny ELSE h[p].ny + 1,
                    x |-> WithLine(h[p], h[p].x, i, k, d),
                    y |-> WithLine(h[p], h[p].y, i, k, d)]],
        r |-> 0]

\* the coordinates xs of cell c without line i, direction d
WithoutLine(c, xs, i, d) ==
  IF d = Vertical
    THEN [j \in 1 .. (c.nx - 1) * c.ny |->
           LET col == (j - 1) % (c.nx - 1)
               row == (j - 1) \div (c.nx - 1)
           IN xs[CellAt(c, IF col < i THEN col ELSE col + 1, row)]]
    ELSE [j \in 1 .. c.nx * (c.ny - 1) |->
           LET col == (j - 1) % c.nx
               row == (j - 1) \div c.nx
           IN xs[CellAt(c, col, IF row < i THEN row ELSE row + 1)]]

\* meshLineDelete(m, i, d): line i is removed
meshLineDelete(h, p, i, d) ==
  IF i < 0 \/ i >= (IF d = Vertical THEN h[p].nx ELSE h[p].ny)
    THEN [heap |-> h, r |-> 1]
  ELSE [heap |-> [h EXCEPT ![p] = [tag |-> "mesh",
                    nx |-> IF d = Vertical THEN h[p].nx - 1 ELSE h[p].nx,
                    ny |-> IF d = Vertical THEN h[p].ny ELSE h[p].ny - 1,
                    x |-> WithoutLine(h[p], h[p].x, i, d),
                    y |-> WithoutLine(h[p], h[p].y, i, d)]],
        r |-> 0]

\* the largest of a non-empty sequence of numbers
MaxOf(xs) == CHOOSE v \in {xs[j] : j \in 1 .. Len(xs)} : \A j \in 1 .. Len(xs) : xs[j] <= v

\* one coordinate scaled to an image side of n pixels, the mesh's largest
\* coordinate being top; a value that lands on n is moved to n - 1
ScaleTo(v, top, n) ==
  IF top <= 0 THEN v
  ELSE IF (v * U(n)) \div top >= U(n) THEN U(n - 1) ELSE (v * U(n)) \div top

\* meshScale(m, w, h): all coordinates rescaled to fit w by h
meshScale(h, p, w, ht) ==
  [h EXCEPT ![p].x = [j \in 1 .. Len(h[p].x) |-> ScaleTo(h[p].x[j], MaxOf(h[p].x), w)],
            ![p].y = [j \in 1 .. Len(h[p].y) |-> ScaleTo(h[p].y[j], MaxOf(h[p].y), ht)]]

\* a coordinate moved into [0, n), the side of an image of n pixels
Bounded(v, n) == IF v < 0 THEN 0 ELSE IF v >= U(n) THEN U(n - 1) ELSE v

\* the x of (col, row) once every x of the row is bounded and no x is below
\* an x to its left
FunctionalX(c, col, row, w) ==
  MaxOf([j \in 1 .. col + 1 |-> Bounded(meshGetx(c, j - 1, row), w)])

\* the y of (col, row) once every y of the column is bounded and no y is
\* below a y above it
FunctionalY(c, col, row, ht) ==
  MaxOf([j \in 1 .. row + 1 |-> Bounded(meshGety(c, col, j - 1), ht)])

\* meshFunctionalize(m, w, h): the repaired mesh and the number of points changed
meshFunctionalize(h, p, w, ht) ==
  LET c == h[p]
      fx == [j \in 1 .. Len(c.x) |-> FunctionalX(c, (j - 1) % c.nx, (j - 1) \div c.nx, w)]
      fy == [j \in 1 .. Len(c.y) |-> FunctionalY(c, (j - 1) % c.nx, (j - 1) \div c.nx, ht)]
  IN [heap |-> [h EXCEPT ![p].x = fx, ![p].y = fy],
      nc |-> Cardinality({j \in 1 .. Len(c.x) : fx[j] # c.x[j] \/ fy[j] # c.y[j]})]

---------------------------------------------------------------------------
(* Mesh editing: the Go methods *)

\* C.int(v): the low CIntBits bits of v, read as a signed number
CInt(v) ==
  LET w == v % (2 ^ CIntBits)
  IN IF w >= 2 ^ (CIntBits - 1) THEN w - 2 ^ CIntBits ELSE w

\* a float64 converted to an int: the fraction is dropped, towards zero
Trunc(v) == IF v >= 0 THEN v \div TDen ELSE 0 - ((0 - v) \div TDen)

\* MeshFromImagePoints(sl): as MeshFromPoints, for whole-number points
MeshFromImagePoints(h, sl) ==
  IF Len(sl) < MinDim \/ Len(sl[1]) < MinDim
    THEN [heap |-> h, m |-> NilMesh, panic |-> TRUE]
  ELSE LET nx == Len(sl[1])
           ny == Len(sl)
       IN IF \E r \in 1 .. ny : Len(sl[r]) # nx
            THEN [heap |-> h, m |-> NilMesh, panic |-> TRUE]
          ELSE LET e == NewEmptyMesh(h, nx, ny, "asis")
                   np == nx * ny
               IN [heap |-> [e.heap EXCEPT
                              ![e.m.mesh].x = [i \in 1 .. np |-> U(sl[((i - 1) \div nx) + 1][((i - 1) % nx) + 1].X)],
                              ![e.m.mesh].y = [i \in 1 .. np |-> U(sl[((i - 1) \div nx) + 1][((i - 1) % nx) + 1].Y)]],
                   m |-> e.m, panic |-> FALSE]

\* float64(a) / float64(b), in 1/TDen units
Quot(a, b) == (a * TDen) \div b

\* the model's fixed-point numbers hold a/b exactly
ExactQuot(a, b) == (a * TDen) % b = 0

\* a bug NewRegularMesh could have: the span divided by the number of points
NewRegularMeshByCount(h, nx, ny, wd, ht) ==
  MeshFromPoints(h, [r \in 1 .. ny |->
                      [c \in 1 .. nx |-> [X |-> Quot((c - 1) * (wd - 1), nx),
                                          Y |-> Quot((r - 1) * (ht - 1), ny)]]])

\* NewRegularMesh(nx, ny, wd, ht): row r, column c (from 0) is put at
\* (c*(wd-1)/(nx-1), r*(ht-1)/(ny-1)), then MeshFromPoints
NewRegularMesh(h, nx, ny, wd, ht) ==
  MeshFromPoints(h, [r \in 1 .. ny |->
                      [c \in 1 .. nx |-> [X |-> Quot((c - 1) * (wd - 1), nx - 1),
                                          Y |-> Quot((r - 1) * (ht - 1), ny - 1)]]])

\* a bug Points could have: the flat arrays read column by column
PointsByColumn(h, m) ==
  LET nx == h[m.mesh].nx
      ny == h[m.mesh].ny
  IN [j \in 1 .. ny |->
       [i \in 1 .. nx |-> [X |-> h[m.mesh].x[(i - 1) * ny + j],
                           Y |-> h[m.mesh].y[(i - 1) * ny + j]]]]

\* Points(): the stored coordinates, reshaped into rows
Points(h, m) ==
  LET nx == h[m.mesh].nx
      ny == h[m.mesh].ny
  IN [j \in 1 .. ny |->
       [i \in 1 .. nx |-> [X |-> h[m.mesh].x[(j - 1) * nx + i],
                           Y |-> h[m.mesh].y[(j - 1) * nx + i]]]]

\* ImagePoints(): the same, each coordinate converted to an int
ImagePoints(h, m) ==
  LET nx == h[m.mesh].nx
      ny == h[m.mesh].ny
  IN [j \in 1 .. ny |->
       [i \in 1 .. nx |-> [X |-> Trunc(h[m.mesh].x[(j - 1) * nx + i]),
                           Y |-> Trunc(h[m.mesh].y[(j - 1) * nx + i])]]]

\* checkMeshCoord(x, y): TRUE when it panics.  The test is made on the
\* coordinates after their conversion to C ints.
checkMeshCoord(h, m, x, y) ==
  CInt(x) < 0 \/ CInt(y) < 0 \/ CInt(x) >= h[m.mesh].nx \/ CInt(y) >= h[m.mesh].ny

\* Get(x, y)
Get(h, m, x, y) ==
  IF checkMeshCoord(h, m, x, y)
    THEN [panic |-> TRUE, pt |-> [X |-> 0, Y |-> 0]]
  ELSE [panic |-> FALSE,
        pt |-> [X |-> meshGetx(h[m.mesh], CInt(x), CInt(y)),
                Y |-> meshGety(h[m.mesh], CInt(x), CInt(y))]]

\* Set(x, y, pt)
Set(h, m, x, y, pt) ==
  IF checkMeshCoord(h, m, x, y)
    THEN [heap |-> h, panic |-> TRUE]
  ELSE [heap |-> meshSetNoundo(h, m.mesh, CInt(x), CInt(y), pt.X, pt.Y), panic |-> FALSE]

\* a bug Functionalize could have: width and height handed over in the wrong order
FunctionalizeSwapped(h, m, w, ht) ==
  CHOOSE res \in {[heap |-> f.heap, nc |-> f.nc] :
                  f \in {meshFunctionalize(h, m.mesh, CInt(ht), CInt(w))}} : TRUE

\* a bug Functionalize could have: the number of points is returned
FunctionalizeCountsAll(h, m, w, ht) ==
  CHOOSE res \in {[heap |-> f.heap, nc |-> h[m.mesh].nx * h[m.mesh].ny] :
                  f \in {meshFunctionalize(h, m.mesh, CInt(w), CInt(ht))}} : TRUE

\* Functionalize(w, h): the library's count is returned
Functionalize(h, m, w, ht) ==
  CHOOSE res \in {[heap |-> f.heap, nc |-> f.nc] :
                  f \in {meshFunctionalize(h, m.mesh, CInt(w), CInt(ht))}} : TRUE

\* a bug Scale could have: width and height handed over in the wrong order
ScaleSwapped(h, m, w, ht) == [heap |-> meshScale(h, m.mesh, CInt(ht), CInt(w))]

\* Scale(w, h)
Scale(h, m, w, ht) == [heap |-> meshScale(h, m.mesh, CInt(w), CInt(ht))]

\* the Go fields NX and NY reloaded from the library's mesh
Reloaded(h, m) == [m EXCEPT !.NX = h[m.mesh].nx, !.NY = h[m.mesh].ny]

\* a bug AddLine could have: NX and NY are not reloaded after the call
AddLineStaleDims(h, m, i, k, d) ==
  IF d = Vertical /\ (i < 0 \/ i >= m.NX - 1)
    THEN [heap |-> h, m |-> m, err |-> TRUE]
  ELSE IF d = Horizontal /\ (i < 0 \/ i >= m.NY - 1)
    THEN [heap |-> h, m |-> m, err |-> TRUE]
  ELSE IF d # Vertical /\ d # Horizontal
    THEN [heap |-> h, m |-> m, err |-> TRUE]
  ELSE IF k < 0 \/ k > TDen
    THEN [heap |-> h, m |-> m, err |-> TRUE]
  ELSE CHOOSE res \in {[heap |-> a.heap, m |-> m, err |-> a.r # 0] :
                       a \in {meshLineAdd(h, m.mesh, CInt(i), k, CInt(d))}} : TRUE

\* a bug AddLine could have: the fraction is handed to the library unchecked
AddLineAnyFraction(h, m, i, k, d) ==
  IF d = Vertical /\ (i < 0 \/ i >= m.NX - 1)
    THEN [heap |-> h, m |-> m, err |-> TRUE]
  ELSE IF d = Horizontal /\ (i < 0 \/ i >= m.NY - 1)
    THEN [heap |-> h, m |-> m, err |-> TRUE]
  ELSE IF d # Vertical /\ d # Horizontal
    THEN [heap |-> h, m |-> m, err |-> TRUE]
  ELSE CHOOSE res \in {IF a.r # 0 THEN [heap |-> a.heap, m |-> m, err |-> TRUE]
                       ELSE [heap |-> a.heap, m |-> Reloaded(a.heap, m), err |-> FALSE] :
                       a \in {meshLineAdd(h, m.mesh, CInt(i), k, CInt(d))}} : TRUE

\* AddLine(i, f, d), f = k/TDen
AddLine(h, m, i, k, d) ==
  IF d = Vertical /\ (i < 0 \/ i >= m.NX - 1)
    THEN [heap |-> h, m |-> m, err |-> TRUE]
  ELSE IF d = Horizontal /\ (i < 0 \/ i >= m.NY - 1)
    THEN [heap |-> h, m |-> m, err |-> TRUE]
  ELSE IF d # Vertical /\ d # Horizontal
    THEN [heap |-> h, m |-> m, err |-> TRUE]
  ELSE IF k < 0 \/ k > TDen
    THEN [heap |-> h, m |-> m, err |-> TRUE]
  ELSE CHOOSE res \in {IF a.r # 0 THEN [heap |-> a.heap, m |-> m, err |-> TRUE]
                       ELSE [heap |-> a.heap, m |-> Reloaded(a.heap, m), err |-> FALSE] :
                       a \in {meshLineAdd(h, m.mesh, CInt(i), k, CInt(d))}} : TRUE

\* a bug DeleteLine could have: NX and NY are not reloaded after the call
DeleteLineStaleDims(h, m, i, d) ==
  IF d = Vertical /\ (i < 0 \/ i >= m.NX)
    THEN [heap |-> h, m |-> m, err |-> TRUE]
  ELSE IF d = Horizontal /\ (i < 0 \/ i >= m.NY)
    THEN [heap |-> h, m |-> m, err |-> TRUE]
  ELSE IF d # Vertical /\ d # Horizontal
    THEN [heap |-> h, m |-> m, err |-> TRUE]
  ELSE CHOOSE res \in {[heap |-> a.heap, m |-> m, err |-> a.r # 0] :
                       a \in {meshLineDelete(h, m.mesh, CInt(i), CInt(d))}} : TRUE

\* a bug DeleteLine could have: the index tested against the other dimension
DeleteLineSwappedDims(h, m, i, d) ==
  IF d = Vertical /\ (i < 0 \/ i >= m.NY)
    THEN [heap |-> h, m |-> m, err |-> TRUE]
  ELSE IF d = Horizontal /\ (i < 0 \/ i >= m.NX)
    THEN [heap |-> h, m |-> m, err |-> TRUE]
  ELSE IF d # Vertical /\ d # Horizontal
    THEN [heap |-> h, m |-> m, err |-> TRUE]
  ELSE CHOOSE res \in {IF a.r # 0 THEN [heap |-> a.heap, m |-> m, err |-> TRUE]
                       ELSE [heap |-> a.heap, m |-> Reloaded(a.heap, m), err |-> FALSE] :
                       a \in {meshLineDelete(h, m.mesh, CInt(i), CInt(d))}} : TRUE

\* DeleteLine(i, d)
DeleteLine(h, m, i, d) ==
  IF d = Vertical /\ (i < 0 \/ i >= m.NX)
    THEN [heap |-> h, m |-> m, err |-> TRUE]
  ELSE IF d = Horizontal /\ (i < 0 \/ i >= m.NY)
    THEN [heap |-> h, m |-> m, err |-> TRUE]
  ELSE IF d # Vertical /\ d # Horizontal
    THEN [heap |-> h, m |-> m, err |-> TRUE]
  ELSE CHOOSE res \in {IF a.r # 0 THEN [heap |-> a.heap, m |-> m, err |-> TRUE]
                       ELSE [heap |-> a.heap, m |-> Reloaded(a.heap, m), err |-> FALSE] :
                       a \in {meshLineDelete(h, m.mesh, CInt(i), CInt(d))}} : TRUE

---------------------------------------------------------------------------
(* Images: Go's image.Image values *)

\* the image types warpOnly has a case for
Native == {"NRGBA", "Gray", "CMYK", "Alpha"}

\* the image types Morph has a case for
Morphable == {"NRGBA", "CMYK"}

\* interleaved channels per pixel
NChan(type) == IF type \in {"Gray", "Alpha", "Gray16"} THEN 1 ELSE 4

Rect(x0, y0, x1, y1) == [MinX |-> x0, MinY |-> y0, MaxX |-> x1, MaxY |-> y1]

Dx(r) == r.MaxX - r.MinX

Dy(r) == r.MaxY - r.MinY

NPix(r) == Dx(r) * Dy(r)

InRect(r, x, y) == r.MinX <= x /\ x < r.MaxX /\ r.MinY <= y /\ y < r.MaxY

\* position of pixel (x, y) in Pix, rows stored one after the other
PixIndex(r, x, y) == (y - r.MinY) * Dx(r) + (x - r.MinX) + 1

PixX(r, i) == r.MinX + ((i - 1) % Dx(r))

PixY(r, i) == r.MinY + ((i - 1) \div Dx(r))

NoImage == [type |-> "none", Rect |-> Rect(0, 0, 0, 0), Pix |-> << >>]

\* channel values the test images are painted with
Palette == <<0, 1, MaxU8>>

\* a test image: channel c of pixel i takes the palette entry (seed + i + c) mod 3;
\* a Gray16 sample is the 8-bit entry repeated in both bytes
MkImage(type, r, seed) ==
  [type |-> type, Rect |-> r,
   Pix |-> [i \in 1 .. NPix(r) |->
             [c \in 1 .. NChan(type) |->
               IF type = "Gray16"
                 THEN Palette[((seed + i + c) % 3) + 1] * 257
                 ELSE Palette[((seed + i + c) % 3) + 1]]]]

\* the images the caller has
Images ==
  {MkImage("NRGBA", Rect(0, 0, 1, 1), 0), MkImage("NRGBA", Rect(0, 0, 1, 1), 1),
   MkImage("NRGBA", Rect(0, 0, 2, 1), 0),
   MkImage("CMYK", Rect(0, 0, 1, 1), 0), MkImage("CMYK", Rect(0, 0, 2, 1), 1),
   MkImage("Gray", Rect(0, 0, 2, 1), 0), MkImage("Alpha", Rect(0, 0, 1, 1), 1),
   MkImage("RGBA", Rect(0, 0, 2, 1), 0), MkImage("Gray16", Rect(0, 0, 1, 1), 1)}

\* uint8(v >> 8) of a 16-bit-or-wider value
Hi8(v) == (v \div 256) % 256

\* color.NRGBAModel.Convert applied to a colour with 16-bit channels r, g, b, a
\* (alpha-premultiplied, as Color.RGBA returns them)
nrgbaModel(r, g, b, a) ==
  IF a = 65535 THEN <<Hi8(r), Hi8(g), Hi8(b), MaxU8>>
  ELSE IF a = 0 THEN <<0, 0, 0, 0>>
  ELSE <<Hi8((r * 65535) \div a), Hi8((g * 65535) \div a), Hi8((b * 65535) \div a), Hi8(a)>>

\* cm.Convert(img.At(x, y)) for the NRGBA colour model: the pixel's RGBA() then nrgbaModel
ToNRGBA(type, px) ==
  CASE type = "NRGBA" -> px
    [] type = "RGBA" -> nrgbaModel(px[1] * 257, px[2] * 257, px[3] * 257, px[4] * 257)
    [] type = "Gray16" -> nrgbaModel(px[1], px[1], px[1], 65535)
    [] type = "Gray" -> nrgbaModel(px[1] * 257, px[1] * 257, px[1] * 257, 65535)
    [] type = "Alpha" -> nrgbaModel(px[1] * 257, px[1] * 257, px[1] * 257, px[1] * 257)
    [] OTHER -> LET w == 65535 - px[4] * 257
                IN nrgbaModel(((65535 - px[1] * 257) * w) \div 65535,
                              ((65535 - px[2] * 257) * w) \div 65535,
                              ((65535 - px[3] * 257) * w) \div 65535, 65535)

---------------------------------------------------------------------------
(* libmorph's resampler *)

\* What the library paints for a source and a target mesh that differ is
\* not decided by the Go code.  The model leaves it open: the library
\* returns either the input pixels or other pixels of the same length.
\* Within one call of Warp or Morph the library is one function of its
\* arguments: every library call of the call uses the same choice.
LibChoices == {"same", "changed"}

LibOut(pix, sel) ==
  IF sel = "same" THEN pix
  ELSE [i \in 1 .. Len(pix) |-> [c \in 1 .. Len(pix[i]) |-> MaxU8 - pix[i][c]]]

\* warp_image_versatile(pix, ..., src.x, src.y, dst.x, dst.y, nx, ny): a mesh
\* warped to itself is the identity transform; sc and dc are the mesh cells
warp_image_versatile(pix, sc, dc, sel) ==
  IF sc.x = dc.x /\ sc.y = dc.y THEN pix ELSE LibOut(pix, sel)

\* what one library call was given
LibCall(pix, nchan, sc, dc) ==
  [pix |-> pix, nchan |-> nchan, sx |-> sc.x, sy |-> sc.y, dx |-> dc.x, dy |-> dc.y,
   nx |-> sc.nx, ny |-> sc.ny]

---------------------------------------------------------------------------
(* warp.go *)

\* warpUint8Slice: a new pixel array of the same length, filled by the library
warpUint8Slice(pix, sc, dc, sel) == warp_image_versatile(pix, sc, dc, sel)

\* warpNRGBA, warpGray, warpCMYK, warpAlpha: the warped pixels with the
\* input's type, stride and rectangle
warpSame(img, sc, dc, sel) ==
  [img |-> [type |-> img.type, Rect |-> img.Rect, Pix |-> warpUint8Slice(img.Pix, sc, dc, sel)],
   lib |-> <<LibCall(img.Pix, NChan(img.type), sc, dc)>>]

\* warpAny: the image converted pixel by pixel to NRGBA, then warpNRGBA
warpAny(img, sc, dc, sel) ==
  LET nrgba == [type |-> "NRGBA", Rect |-> img.Rect,
                Pix |-> [i \in 1 .. NPix(img.Rect) |-> ToNRGBA(img.type, img.Pix[i])]]
  IN warpSame(nrgba, sc, dc, sel)

\* a bug warpOnly could have: Gray images lack their own case
warpOnlyNoGray(h, img, src, dst, sel) ==
  IF meshCompatibilityCheck(h[src.mesh], h[dst.mesh]) # 0
    THEN [err |-> TRUE, img |-> NoImage, lib |-> << >>]
  ELSE LET w == IF img.type \in Native \ {"Gray"}
                  THEN warpSame(img, h[src.mesh], h[dst.mesh], sel)
                  ELSE warpAny(img, h[src.mesh], h[dst.mesh], sel)
       IN [err |-> FALSE, img |-> w.img, lib |-> w.lib]

\* warpOnly(img, src, dst)
warpOnly(h, img, src, dst, sel) ==
  IF meshCompatibilityCheck(h[src.mesh], h[dst.mesh]) # 0
    THEN [err |-> TRUE, img |-> NoImage, lib |-> << >>]
  ELSE LET w == IF img.type \in Native
                  THEN warpSame(img, h[src.mesh], h[dst.mesh], sel)
                  ELSE warpAny(img, h[src.mesh], h[dst.mesh], sel)
       IN [err |-> FALSE, img |-> w.img, lib |-> w.lib]

\* a bug Warp could have: the image warped to the destination mesh, not the target
WarpToDst(h, img, src, dst, k, sel) ==
  LET warped(t, w) ==
        [heap |-> Lose(t.heap, t.m.mesh), err |-> w.err, img |-> w.img, lib |-> w.lib]
      rest(t) ==
        IF t.err
          THEN [heap |-> t.heap, err |-> TRUE, img |-> NoImage, lib |-> << >>]
        ELSE CHOOSE res \in {warped(t, w) : w \in {warpOnly(t.heap, img, src, dst, sel)}} : TRUE
  IN CHOOSE res \in {rest(t) : t \in {InterpolateMeshes(h, src, dst, k)}} : TRUE

\* Warp(img, src, dst, t): the target mesh is interpolated, the image is
\* warped from src to the target; the target is never freed
Warp(h, img, src, dst, k, sel) ==
  LET warped(t, w) ==
        [heap |-> Lose(t.heap, t.m.mesh), err |-> w.err, img |-> w.img, lib |-> w.lib]
      rest(t) ==
        IF t.err
          THEN [heap |-> t.heap, err |-> TRUE, img |-> NoImage, lib |-> << >>]
        ELSE CHOOSE res \in {warped(t, w) : w \in {warpOnly(t.heap, img, src, t.m, sel)}} : TRUE
  IN CHOOSE res \in {rest(t) : t \in {InterpolateMeshes(h, src, dst, k)}} : TRUE

---------------------------------------------------------------------------
(* morph.go *)

\* math.Round(n/d) for d > 0: to the nearest integer, halves away from zero
Round(n, d) ==
  IF n >= 0 THEN (2 * n + d) \div (2 * d) ELSE 0 - ((2 * (0 - n) + d) \div (2 * d))

\* a bug avgU8 could have: the sum truncated instead of rounded
avgU8Truncated(a, b, k) == ((a * (TDen - k) + b * k) \div TDen) % (MaxU8 + 1)

\* avgU8(a, b, t) = uint8(math.Round(float64(a)*(1.0-t) + float64(b)*t))
avgU8(a, b, k) == Round(a * (TDen - k) + b * k, TDen) % (MaxU8 + 1)

\* NRGBAAt(x, y), CMYKAt(x, y): the pixel, or the zero colour outside the rectangle
ColorAt(img, x, y) ==
  IF InRect(img.Rect, x, y) THEN img.Pix[PixIndex(img.Rect, x, y)]
  ELSE [c \in 1 .. NChan(img.type) |-> 0]

\* the loop of morphNRGBA and morphCMYK: over the bounds of the warped source,
\* each of the four channels averaged with avgU8
Blend(sWarp, dWarp, k) ==
  [type |-> sWarp.type, Rect |-> sWarp.Rect,
   Pix |-> [i \in 1 .. NPix(sWarp.Rect) |->
             LET cs == ColorAt(sWarp, PixX(sWarp.Rect, i), PixY(sWarp.Rect, i))
                 cd == ColorAt(dWarp, PixX(sWarp.Rect, i), PixY(sWarp.Rect, i))
             IN <<avgU8(cs[1], cd[1], k), avgU8(cs[2], cd[2], k),
                  avgU8(cs[3], cd[3], k), avgU8(cs[4], cd[4], k)>>]]

\* a result of Morph that carries no image
MorphFailed(h, err, panic, lib) ==
  [heap |-> h, err |-> err, panic |-> panic, img |-> NoImage,
   sWarp |-> NoImage, dWarp |-> NoImage, lib |-> lib]

\* the body morphNRGBA and morphCMYK share: Warp(sImg, sMesh, dMesh, t), then
\* Warp(dImg, sMesh, dMesh, 1.0-t), then the blend
morphBody(h, sI, dI, sMesh, dMesh, k, sel) ==
  LET blended(sw, dw) ==
        IF dw.err THEN MorphFailed(dw.heap, TRUE, FALSE, sw.lib \o dw.lib)
        ELSE [heap |-> dw.heap, err |-> FALSE, panic |-> FALSE,
              img |-> Blend(sw.img, dw.img, k),
              sWarp |-> sw.img, dWarp |-> dw.img, lib |-> sw.lib \o dw.lib]
      rest(sw) ==
        IF sw.err THEN MorphFailed(sw.heap, TRUE, FALSE, sw.lib)
        ELSE CHOOSE res \in {blended(sw, dw) :
                              dw \in {Warp(sw.heap, dI, sMesh, dMesh, TDen - k, sel)}} : TRUE
  IN CHOOSE res \in {rest(sw) : sw \in {Warp(h, sI, sMesh, dMesh, k, sel)}} : TRUE

\* a bug morphNRGBA could have: the green channel averaged with the destination's red
morphNRGBAMixed(h, sI, dI, sMesh, dMesh, k, sel) ==
  LET mixed(m) ==
        IF m.err THEN m
        ELSE [m EXCEPT !.img.Pix =
               [i \in 1 .. Len(m.img.Pix) |->
                 [m.img.Pix[i] EXCEPT ![2] =
                   avgU8(ColorAt(m.sWarp, PixX(m.sWarp.Rect, i), PixY(m.sWarp.Rect, i))[2],
                         ColorAt(m.dWarp, PixX(m.sWarp.Rect, i), PixY(m.sWarp.Rect, i))[1], k)]]]
  IN CHOOSE res \in {mixed(m) : m \in {morphBody(h, sI, dI, sMesh, dMesh, k, sel)}} : TRUE

\* morphNRGBA(sImg, dImg, sMesh, dMesh, t)
morphNRGBA(h, sI, dI, sMesh, dMesh, k, sel) ==
  morphBody(h, sI, dI, sMesh, dMesh, k, sel)

\* morphCMYK(sImg, dImg, sMesh, dMesh, t)
morphCMYK(h, sI, dI, sMesh, dMesh, k, sel) ==
  morphBody(h, sI, dI, sMesh, dMesh, k, sel)

\* Morph(sImg, dImg, sMesh, dMesh, t): panics unless both images are NRGBA or both CMYK
Morph(h, sI, dI, sMesh, dMesh, k, sel) ==
  IF sI.type # dI.type THEN MorphFailed(h, FALSE, TRUE, << >>)
  ELSE IF sI.type = "NRGBA" THEN morphNRGBA(h, sI, dI, sMesh, dMesh, k, sel)
  ELSE IF sI.type = "CMYK" THEN morphCMYK(h, sI, dI, sMesh, dMesh, k, sel)
  ELSE MorphFailed(h, FALSE, TRUE, << >>)

---------------------------------------------------------------------------
(* Mesh files: Write and ReadMesh *)

\* A file is a sequence of lines and a line a sequence of fields.  A field
\* is a decimal integer (s empty, n its value) or any other word (s the word).
I(n) == [s |-> "", n |-> n]

W(s) == [s |-> s, n |-> 0]

IsInt(f) == f.s = ""

\* the label libmorph keeps for point i of a mesh: zero in every mesh it makes
meshLabel(c, i) == 0

MinOf(xs) == CHOOSE v \in {xs[j] : j \in 1 .. Len(xs)} : \A j \in 1 .. Len(xs) : v <= xs[j]

\* meshRanges(): the smallest and the largest x and y of the mesh
meshRanges(h, m) ==
  [ul |-> [X |-> MinOf(h[m.mesh].x), Y |-> MinOf(h[m.mesh].y)],
   lr |-> [X |-> MaxOf(h[m.mesh].x), Y |-> MaxOf(h[m.mesh].y)]]

\* math.Floor and math.Ceil of v/TDen
Floor(v) == v \div TDen

Ceil(v) == 0 - ((0 - v) \div TDen)

\* the lines Write puts after the points.  The three eye positions are
\* printed with six decimals: fields that are no integers.
SubimageLines(rg) ==
  LET dx == rg.lr.X - rg.ul.X
      dy == rg.lr.Y - rg.ul.Y
      eye == <<<<W("<eye>")>>, <<W("%.6f"), W("%.6f")>>, <<W("</eye>")>>>>
      size == <<I(Ceil(dx + U(1))), I(Ceil(dy + U(1)))>>
  IN <<<<W("<SIS>")>>, <<W("<orig>")>>, size, <<W("</orig>")>>,
       <<W("<rect>")>>,
       <<I(Floor(rg.ul.X)), I(Floor(rg.ul.Y)), I(Ceil(rg.lr.X)), I(Ceil(rg.lr.Y))>>,
       <<W("</rect>")>>>>
     \o eye \o eye \o eye
     \o <<<<W("</SIS>")>>, <<W("<resulting"), W("image"), W("size>")>>, size,
          <<W("</resulting"), W("image"), W("size>")>>, <<W("<features>")>>>>
     \o <<<<W("<name>")>>, <<W("feature"), I(0)>>, <<W("</name>")>>,
          <<W("<name>")>>, <<W("feature"), I(1)>>, <<W("</name>")>>,
          <<W("<name>")>>, <<W("feature"), I(2)>>, <<W("</name>")>>,
          <<W("</features>")>>>>

\* a bug Write could have: the tenths cut off instead of rounded
WriteTruncated(h, m) ==
  LET c == h[m.mesh]
  IN <<<<W("M2")>>, <<I(c.nx), I(c.ny)>>>>
     \o [i \in 1 .. c.nx * c.ny |->
          <<I(Trunc(10 * c.x[i])), I(Trunc(10 * c.y[i])), I(meshLabel(c, i))>>]
     \o SubimageLines(meshRanges(h, m))

\* Write(w): the lines written to w.  "M2", the storage's nx and ny, one
\* line per point in storage order with math.Round of ten times x and y and
\* the point's label, then the subimage lines.
Write(h, m) ==
  LET c == h[m.mesh]
  IN <<<<W("M2")>>, <<I(c.nx), I(c.ny)>>>>
     \o [i \in 1 .. c.nx * c.ny |->
          <<I(Round(10 * c.x[i], TDen)), I(Round(10 * c.y[i], TDen)), I(meshLabel(c, i))>>]
     \o SubimageLines(meshRanges(h, m))

\* fmt.Sscan(ln, &v1, ..., &vcnt) with integer operands: the fields are
\* taken in turn; a missing field is io.ErrUnexpectedEOF, a field that is
\* no integer a syntax error; fields after the last operand are not looked at.
\* n is the number of operands filled.
Sscan(ln, cnt) ==
  LET bad == {i \in 1 .. cnt : i > Len(ln) \/ ~IsInt(ln[i])}
  IN IF bad = {} THEN [n |-> cnt, err |-> "none"]
     ELSE LET i == CHOOSE j \in bad : \A q \in bad : j <= q
          IN [n |-> i - 1,
              err |-> IF i > Len(ln) THEN "ErrUnexpectedEOF" ELSE "syntax"]

\* the error ReadMesh makes of a line it wants cnt integers from: Sscan's
\* error, or "count" when Sscan filled another number of operands
fieldsErr(ln, cnt) ==
  IF Sscan(ln, cnt).err # "none" THEN Sscan(ln, cnt).err
  ELSE IF Sscan(ln, cnt).n # cnt THEN "count"
  ELSE "none"

\* what ReadMesh returns when it gives up
NoMesh(e) == [err |-> e, nx |-> 0, ny |-> 0, sl |-> << >>]

\* the integers of the nx * ny coordinate lines that follow the two header
\* lines of f, as rows of points in tenths
Tenths(f, nx, ny) ==
  [r \in 1 .. ny |->
    [c \in 1 .. nx |-> [X |-> f[2 + (r - 1) * nx + c][1].n,
                        Y |-> f[2 + (r - 1) * nx + c][2].n]]]

\* a bug ReadMesh could have: the dimensions read as rows, then columns
scanMeshTransposed(f) ==
  IF Len(f) < 1 THEN NoMesh("EOF")
  ELSE IF f[1] # <<W("M2")>> THEN NoMesh("header")
  ELSE IF Len(f) < 2 THEN NoMesh("EOF")
  ELSE IF fieldsErr(f[2], 2) # "none" THEN NoMesh(fieldsErr(f[2], 2))
  ELSE LET nx == f[2][2].n
           ny == f[2][1].n
           bad == {k \in 1 .. nx * ny : Len(f) < 2 + k \/ fieldsErr(f[2 + k], 3) # "none"}
       IN IF nx < MinDim \/ ny < MinDim THEN NoMesh("small")
          ELSE IF bad # {}
            THEN LET k == CHOOSE j \in bad : \A q \in bad : j <= q
                 IN IF Len(f) < 2 + k THEN NoMesh("EOF")
                    ELSE NoMesh(fieldsErr(f[2 + k], 3))
          ELSE [err |-> "none", nx |-> nx, ny |-> ny, sl |-> Tenths(f, nx, ny)]

\* a bug ReadMesh could have: anything after the last point is refused
scanMeshToEnd(f) ==
  IF Len(f) < 1 THEN NoMesh("EOF")
  ELSE IF f[1] # <<W("M2")>> THEN NoMesh("header")
  ELSE IF Len(f) < 2 THEN NoMesh("EOF")
  ELSE IF fieldsErr(f[2], 2) # "none" THEN NoMesh(fieldsErr(f[2], 2))
  ELSE LET nx == f[2][1].n
           ny == f[2][2].n
           bad == {k \in 1 .. nx * ny : Len(f) < 2 + k \/ fieldsErr(f[2 + k], 3) # "none"}
       IN IF nx < MinDim \/ ny < MinDim THEN NoMesh("small")
          ELSE IF bad # {}
            THEN LET k == CHOOSE j \in bad : \A q \in bad : j <= q
                 IN IF Len(f) < 2 + k THEN NoMesh("EOF")
                    ELSE NoMesh(fieldsErr(f[2 + k], 3))
          ELSE IF Len(f) > 2 + nx * ny THEN NoMesh("syntax")
          ELSE [err |-> "none", nx |-> nx, ny |-> ny, sl |-> Tenths(f, nx, ny)]

\* The reading part of ReadMesh(r).  err is "EOF" when the error wraps
\* io.EOF (the scanner had no further line), Sscan's error when a line did
\* not parse, "count" when Sscan filled too few operands without an error,
\* "header" when the first line is not M2, "small" when the mesh is below
\* 4x4, "none" otherwise; sl then holds the points in tenths.
scanMesh(f) ==
  IF Len(f) < 1 THEN NoMesh("EOF")
  ELSE IF f[1] # <<W("M2")>> THEN NoMesh("header")
  ELSE IF Len(f) < 2 THEN NoMesh("EOF")
  ELSE IF fieldsErr(f[2], 2) # "none" THEN NoMesh(fieldsErr(f[2], 2))
  ELSE LET nx == f[2][1].n
           ny == f[2][2].n
           bad == {k \in 1 .. nx * ny : Len(f) < 2 + k \/ fieldsErr(f[2 + k], 3) # "none"}
       IN IF nx < MinDim \/ ny < MinDim THEN NoMesh("small")
          ELSE IF bad # {}
            THEN LET k == CHOOSE j \in bad : \A q \in bad : j <= q
                 IN IF Len(f) < 2 + k THEN NoMesh("EOF")
                    ELSE NoMesh(fieldsErr(f[2 + k], 3))
          ELSE [err |-> "none", nx |-> nx, ny |-> ny, sl |-> Tenths(f, nx, ny)]

\* ReadMesh(r): the mesh of the points read, each integer divided by ten, or
\* an error and no mesh
ReadMesh(h, f) ==
  LET p == CHOOSE res \in {scanMesh(f)} : TRUE
  IN IF p.err # "none"
       THEN [heap |-> h, m |-> NilMesh, err |-> p.err]
     ELSE CHOOSE res \in
            {[heap |-> q.heap, m |-> q.m, err |-> "none"] :
               q \in {MeshFromPoints(h, [r \in 1 .. p.ny |->
                                          [c \in 1 .. p.nx |->
                                            [X |-> Quot(p.sl[r][c].X, 10),
                                             Y |-> Quot(p.sl[r][c].Y, 10)]]])}} : TRUE

---------------------------------------------------------------------------
(* The state machine: a caller holding two meshes and two images *)

EmptyHeap == [i \in Handles |-> FreeCell]

\* x, y, d, pt, pts and ret are the further arguments and results of the
\* mesh-editing calls, file the lines written or read and kind the error
\* ReadMesh returned; n counts the calls of a caller that edits meshes
NoCall ==
  [op |-> "none", i1 |-> "s", i2 |-> "s", m1 |-> "a", m2 |-> "a", k |-> 0,
   err |-> FALSE, panic |-> FALSE, mesh |-> NilMesh, img |-> NoImage,
   sWarp |-> NoImage, dWarp |-> NoImage, lib |-> << >>,
   x |-> 0, y |-> 0, d |-> 0, pt |-> [X |-> 0, Y |-> 0], pts |-> << >>, ret |-> 0, n |-> 0,
   file |-> << >>, kind |-> "none"]

\* the caller's image named n
Img(n) == IF n = "s" THEN sImg ELSE dImg

\* the state after a := MeshFromPoints(ga); b := MeshFromPoints(gb)
Init ==
  \E ga \in Grids, gb \in Grids :
    LET ma == MeshFromPoints(EmptyHeap, ga)
        mb == MeshFromPoints(ma.heap, gb)
    IN /\ heap = mb.heap
       /\ heap0 = mb.heap
       /\ objs = [a |-> ma.m, b |-> mb.m, r |-> NilMesh]
       /\ sImg \in Images
       /\ dImg \in Images
       /\ last = NoCall

\* The caller makes its next call once it is done with what the last one
\* returned, and keeps at most one interpolated mesh at a time.
Idle == last.op = "none" /\ objs.r.mesh = NilHandle

\* r, err := InterpolateMeshes(m1, m2, k/TDen)
InterpolateMeshesCall ==
  \E m1 \in {"a", "b"}, m2 \in {"a", "b"}, k \in Fractions :
    /\ Idle
    /\ FreeHandles(heap) # {}
    /\ \E res \in {InterpolateMeshes(heap, objs[m1], objs[m2], k)} :
          /\ heap' = res.heap
          /\ heap0' = heap
          /\ objs' = [objs EXCEPT !.r = res.m]
          /\ last' = [NoCall EXCEPT !.op = "InterpolateMeshes", !.m1 = m1, !.m2 = m2,
                                    !.k = k, !.err = res.err, !.mesh = res.m]
    /\ UNCHANGED <<sImg, dImg>>

\* r.Free()
FreeCall ==
  /\ objs.r.mesh # NilHandle
  /\ \E res \in {Free(heap, objs.r)} :
        /\ heap' = res.heap
        /\ heap0' = heap
        /\ objs' = [objs EXCEPT !.r = res.m]
        /\ last' = [NoCall EXCEPT !.op = "Free"]
  /\ UNCHANGED <<sImg, dImg>>

\* out, err := Warp(img, m1, m2, k/TDen)
WarpCall ==
  \E i1 \in {"s", "d"}, m2 \in {"a", "b"}, k \in Fractions, sel \in LibChoices :
    /\ Idle
    /\ FreeHandles(heap) # {}
    /\ \E res \in {Warp(heap, Img(i1), objs.a, objs[m2], k, sel)} :
          /\ heap' = res.heap
          /\ heap0' = heap
          /\ last' = [NoCall EXCEPT !.op = "Warp", !.i1 = i1, !.m1 = "a", !.m2 = m2, !.k = k,
                                    !.err = res.err, !.img = res.img, !.lib = res.lib]
    /\ UNCHANGED <<objs, sImg, dImg>>

\* out, err := Morph(sImg, i2, a, m2, k/TDen)
MorphCall ==
  \E i2 \in {"s", "d"}, m2 \in {"a", "b"}, k \in Fractions, sel \in LibChoices :
    /\ Idle
    /\ Cardinality(FreeHandles(heap)) >= 2
    /\ \E res \in {Morph(heap, sImg, Img(i2), objs.a, objs[m2], k, sel)} :
          /\ heap' = res.heap
          /\ heap0' = heap
          /\ last' = [NoCall EXCEPT !.op = "Morph", !.i1 = "s", !.i2 = i2, !.m1 = "a",
                                    !.m2 = m2, !.k = k, !.err = res.err, !.panic = res.panic,
                                    !.img = res.img, !.sWarp = res.sWarp, !.dWarp = res.dWarp,
                                    !.lib = res.lib]
    /\ UNCHANGED <<objs, sImg, dImg>>

\* the caller is done with the values the last call returned
Discard ==
  /\ last.op # "none"
  /\ last' = NoCall
  /\ heap0' = heap
  /\ UNCHANGED <<heap, objs, sImg, dImg>>

Next == InterpolateMeshesCall \/ FreeCall \/ WarpCall \/ MorphCall \/ Discard

Spec == Init /\ [][Next]_vars

---------------------------------------------------------------------------
(* A second caller: one that builds a mesh, copies it and edits the two *)

\* how many calls that take effect the editing caller makes
MaxCalls == 3

\* a grid with row r replaced by a row of n points
Ragged(g, r, n) ==
  [g EXCEPT ![r] = [c \in 1 .. n |-> [X |-> U((c - 1) * Step), Y |-> U((r - 1) * Step)]]]

\* grids MeshFromPoints has to refuse: no rows, too few rows, too few
\* columns, and one row (the first, an inner one, the last) shorter or longer
\* than the others
BadGrids ==
  {<< >>, Grid(MinDim, MinDim - 1, 0), Grid(MinDim - 1, MinDim, 0)}
    \cup {Ragged(Grid(MinDim, MinDim, 0), r, n) :
            r \in {1, 2, MinDim}, n \in {MinDim - 1, MinDim + 1}}

\* a whole-number nx-by-ny grid, its first point at (d, d)
IGrid(nx, ny, d) ==
  [r \in 1 .. ny |->
    [c \in 1 .. nx |->
      IF r = 1 /\ c = 1 THEN [X |-> d, Y |-> d]
                        ELSE [X |-> (c - 1) * Step, Y |-> (r - 1) * Step]]]

IGrids == {IGrid(MinDim, MinDim, 0), IGrid(MinDim, MinDim + 1, 0 - 3)}

BadIGrids ==
  {<< >>, IGrid(MinDim, MinDim - 1, 0), IGrid(MinDim - 1, MinDim, 0),
   [IGrid(MinDim, MinDim, 0) EXCEPT ![MinDim] = <<[X |-> 0, Y |-> 0]>>]}

\* sizes asked of NewEmptyMesh
Sizes == {MinDim - 1, MinDim, MinDim + 1}

\* coordinates passed to Set: in and out of range, and Go ints that do not
\* fit a C int
CoordPairs ==
  {<<0, 0>>, <<MinDim - 1, MinDim - 1>>, <<0 - 1, 0>>, <<0, 0 - 1>>,
   <<MinDim, 0>>, <<0, MinDim>>, <<MinDim + 1, MinDim + 1>>,
   <<2 ^ CIntBits + 1, 0>>, <<0, 2 ^ CIntBits + 1>>, <<1 - 2 ^ CIntBits, 1>>,
   <<2 ^ CIntBits - 1, 0>>, <<2 ^ (CIntBits - 1), 0>>}

\* the point Set stores, its x off the whole numbers
SetPoint == [X |-> U(Step) - (TDen + 1), Y |-> U(2)]

\* line indices, fractions and directions passed to AddLine and DeleteLine
LineIndices == {0 - 1, 0, MinDim - 2, MinDim - 1, MinDim}

LineFractions == {0 - 1, 0, 1, TDen, TDen + 1}

Directions == {0, Vertical, Horizontal}

\* image sizes passed to Scale and Functionalize
ImageSizes == {<<2 * Step, Step>>, <<3 * Step, 3 * Step>>}

\* mesh sizes and image sizes passed to NewRegularMesh: <<nx, ny, wd, ht>>
RegularInputs ==
  {<<MinDim, MinDim, 1, 1>>, <<MinDim, MinDim + 1, 13, MinDim>>,
   <<MinDim + 1, MinDim, MinDim, 13>>, <<MinDim + 1, MinDim + 1, 7, 7>>,
   <<MinDim - 1, MinDim, MinDim, MinDim>>}

\* the 5x5 mesh of TestScale: coordinates 0, 0.25, 0.5, 0.75, 1
UnitGrid ==
  [r \in 1 .. 5 |-> [c \in 1 .. 5 |-> [X |-> Quot(c - 1, 4), Y |-> Quot(r - 1, 4)]]]

\* the 5x4 mesh of TestWrite, columns 1.25 apart and rows 1.75 apart, with
\* its first point moved by d/TDen
FileGrid(d) ==
  [r \in 1 .. 4 |->
    [c \in 1 .. 5 |->
      IF r = 1 /\ c = 1 THEN [X |-> d, Y |-> d + d]
                        ELSE [X |-> (c - 1) * Quot(5, 4), Y |-> (r - 1) * Quot(7, 4)]]]

\* further grids meshes are built from
TestGrids == {UnitGrid, FileGrid(0), FileGrid(0 - Quot(5, 4))}

\* the two header lines of a mesh file
HeadLines(nx, ny) == <<<<W("M2")>>, <<I(nx), I(ny)>>>>

\* the coordinate lines of an nx-by-ny mesh, columns 2.5 and rows 1.5 apart
PointLines(nx, ny) ==
  [i \in 1 .. nx * ny |-> <<I(((i - 1) % nx) * 25), I(((i - 1) \div nx) * 15), I(0)>>]

\* a well-formed file without the lines that follow the points
GoodFile == HeadLines(MinDim, MinDim) \o PointLines(MinDim, MinDim)

\* what may follow the points: nothing, the lines Write puts there, other lines
Trailers ==
  {<< >>,
   SubimageLines([ul |-> [X |-> 0, Y |-> 0], lr |-> [X |-> Quot(15, 2), Y |-> Quot(9, 2)]]),
   <<<<W("junk")>>>>, <<<<I(5), I(5), I(0)>>, <<I(5)>>>>}

\* f with line i replaced by ln
WithLineAt(f, i, ln) == [f EXCEPT ![i] = ln]

\* lines that are no dimension line and no coordinate line: too few fields,
\* too many fields, a field that is no integer
BadDimLines ==
  {<<I(MinDim)>>, <<I(MinDim), I(MinDim), I(7)>>, <<I(MinDim), W("x")>>,
   <<W("4.0"), I(MinDim)>>, <<I(MinDim), I(MinDim), W("x")>>}

BadPointLines ==
  {<<I(5), I(5)>>, <<I(5)>>, <<I(5), I(5), I(0), I(9)>>, <<I(5), W("1.5"), I(0)>>,
   <<W("x"), I(5), I(0)>>, <<I(5), I(5), W("a")>>}

\* the files the caller reads: a well-formed file with each trailer, cut
\* after each of its lines; files with one bad line; a bad header; a mesh
\* too small
Files ==
  UNION {{SubSeq(GoodFile \o tr, 1, n) : n \in 0 .. Len(GoodFile \o tr)} : tr \in Trailers}
  \cup {WithLineAt(GoodFile, 2, ln) : ln \in BadDimLines}
  \cup {WithLineAt(GoodFile, i, ln) : i \in {3, MinDim + 3, Len(GoodFile)}, ln \in BadPointLines}
  \cup {WithLineAt(GoodFile, 1, <<W("M3")>>),
        HeadLines(MinDim - 1, MinDim) \o PointLines(MinDim - 1, MinDim),
        HeadLines(MinDim, MinDim - 1) \o PointLines(MinDim, MinDim - 1)}

\* every coordinate of the file is a number the model holds exactly
ExactFile(f) ==
  \E p \in {scanMesh(f)} :
    p.err = "none" =>
      \A r \in 1 .. p.ny : \A c \in 1 .. p.nx :
        ExactQuot(p.sl[r][c].X, 10) /\ ExactQuot(p.sl[r][c].Y, 10)

MeshInit ==
  /\ heap = EmptyHeap
  /\ heap0 = EmptyHeap
  /\ objs = [a |-> NilMesh, b |-> NilMesh, r |-> NilMesh]
  /\ sImg = NoImage
  /\ dImg = NoImage
  /\ last = NoCall

\* the caller's mesh t has libmorph storage
Live(t) == objs[t].mesh # NilHandle

\* the caller makes its next call once it is done with the last one
Ready == last.op = "none" /\ last.n < MaxCalls

\* the record of a call on mesh t that took effect (ok) or did not
Called(op, t, ok) ==
  [NoCall EXCEPT !.op = op, !.m1 = t, !.mesh = objs[t],
                 !.n = IF ok THEN last.n + 1 ELSE last.n]

\* a := NewEmptyMesh(nx, ny)
NewEmptyMeshCall ==
  \E nx \in Sizes, ny \in Sizes, sel \in LibNewChoices :
    /\ Ready
    /\ ~Live("a")
    /\ FreeHandles(heap) # {}
    /\ \E res \in {NewEmptyMesh(heap, nx, ny, sel)} :
          /\ heap' = res.heap
          /\ heap0' = heap
          /\ objs' = [objs EXCEPT !.a = res.m]
          /\ last' = [Called("NewEmptyMesh", "a", TRUE) EXCEPT !.x = nx, !.y = ny]
    /\ UNCHANGED <<sImg, dImg>>

\* a := MeshFromPoints(sl)
MeshFromPointsCall ==
  \E sl \in Grids \cup TestGrids \cup BadGrids :
    /\ Ready
    /\ ~Live("a")
    /\ FreeHandles(heap) # {}
    /\ \E res \in {MeshFromPoints(heap, sl)} :
          /\ heap' = res.heap
          /\ heap0' = heap
          /\ objs' = IF res.panic THEN objs ELSE [objs EXCEPT !.a = res.m]
          /\ last' = [Called("MeshFromPoints", "a", ~res.panic) EXCEPT
                        !.pts = sl, !.panic = res.panic]
    /\ UNCHANGED <<sImg, dImg>>

\* a, err := ReadMesh(r), r holding the lines f
ReadMeshCall ==
  \E f \in Files :
    /\ Ready
    /\ ~Live("a")
    /\ FreeHandles(heap) # {}
    /\ ExactFile(f)
    /\ \E res \in {ReadMesh(heap, f)} :
          /\ heap' = res.heap
          /\ heap0' = heap
          /\ objs' = IF res.err # "none" THEN objs ELSE [objs EXCEPT !.a = res.m]
          /\ last' = [Called("ReadMesh", "a", res.err = "none") EXCEPT
                        !.file = f, !.err = res.err # "none", !.kind = res.err]
    /\ UNCHANGED <<sImg, dImg>>

\* err := t.Write(w), w a buffer that takes the lines
WriteCall ==
  \E t \in {"a", "b"} :
    /\ Ready
    /\ Live(t)
    /\ last' = [Called("Write", t, FALSE) EXCEPT !.file = Write(heap, objs[t])]
    /\ heap0' = heap
    /\ UNCHANGED <<heap, objs, sImg, dImg>>

\* a := MeshFromImagePoints(sl)
MeshFromImagePointsCall ==
  \E sl \in IGrids \cup BadIGrids :
    /\ Ready
    /\ ~Live("a")
    /\ FreeHandles(heap) # {}
    /\ \E res \in {MeshFromImagePoints(heap, sl)} :
          /\ heap' = res.heap
          /\ heap0' = heap
          /\ objs' = IF res.panic THEN objs ELSE [objs EXCEPT !.a = res.m]
          /\ last' = [Called("MeshFromImagePoints", "a", ~res.panic) EXCEPT
                        !.pts = sl, !.panic = res.panic]
    /\ UNCHANGED <<sImg, dImg>>

\* a := NewRegularMesh(nx, ny, wd, ht)
NewRegularMeshCall ==
  \E q \in RegularInputs :
    /\ Ready
    /\ ~Live("a")
    /\ FreeHandles(heap) # {}
    /\ \A c \in 0 .. q[1] - 1 : ExactQuot(c * (q[3] - 1), q[1] - 1)
    /\ \A r \in 0 .. q[2] - 1 : ExactQuot(r * (q[4] - 1), q[2] - 1)
    /\ \E res \in {NewRegularMesh(heap, q[1], q[2], q[3], q[4])} :
          /\ heap' = res.heap
          /\ heap0' = heap
          /\ objs' = IF res.panic THEN objs ELSE [objs EXCEPT !.a = res.m]
          /\ last' = [Called("NewRegularMesh", "a", ~res.panic) EXCEPT
                        !.x = q[1], !.y = q[2], !.pt = [X |-> q[3], Y |-> q[4]],
                        !.panic = res.panic]
    /\ UNCHANGED <<sImg, dImg>>

\* b := a.Copy()
CopyCall ==
  /\ Ready
  /\ Live("a")
  /\ ~Live("b")
  /\ FreeHandles(heap) # {}
  /\ \E res \in {Copy(heap, objs.a)} :
        /\ heap' = res.heap
        /\ heap0' = heap
        /\ objs' = [objs EXCEPT !.b = res.m]
        /\ last' = Called("Copy", "a", TRUE)
  /\ UNCHANGED <<sImg, dImg>>

\* t.Set(x, y, SetPoint)
SetCall ==
  \E t \in {"a", "b"}, xy \in CoordPairs :
    /\ Ready
    /\ Live(t)
    /\ \E res \in {Set(heap, objs[t], xy[1], xy[2], SetPoint)} :
          /\ heap' = res.heap
          /\ heap0' = heap
          /\ last' = [Called("Set", t, ~res.panic) EXCEPT
                        !.x = xy[1], !.y = xy[2], !.pt = SetPoint, !.panic = res.panic]
    /\ UNCHANGED <<objs, sImg, dImg>>

\* every coordinate Scale(w, h) gives cell c is a number the model holds exactly
ExactScale(c, w, ht) ==
  /\ MaxOf(c.x) > 0 => \A j \in 1 .. Len(c.x) : (c.x[j] * U(w)) % MaxOf(c.x) = 0
  /\ MaxOf(c.y) > 0 => \A j \in 1 .. Len(c.y) : (c.y[j] * U(ht)) % MaxOf(c.y) = 0

\* t.Scale(w, h)
ScaleCall ==
  \E t \in {"a", "b"}, wh \in ImageSizes :
    /\ Ready
    /\ Live(t)
    /\ ExactScale(heap[objs[t].mesh], wh[1], wh[2])
    /\ \E res \in {Scale(heap, objs[t], wh[1], wh[2])} :
          /\ heap' = res.heap
          /\ heap0' = heap
          /\ last' = [Called("Scale", t, TRUE) EXCEPT !.x = wh[1], !.y = wh[2]]
    /\ UNCHANGED <<objs, sImg, dImg>>

\* n := t.Functionalize(w, h)
FunctionalizeCall ==
  \E t \in {"a", "b"}, wh \in ImageSizes :
    /\ Ready
    /\ Live(t)
    /\ \E res \in {Functionalize(heap, objs[t], wh[1], wh[2])} :
          /\ heap' = res.heap
          /\ heap0' = heap
          /\ last' = [Called("Functionalize", t, TRUE) EXCEPT
                        !.x = wh[1], !.y = wh[2], !.ret = res.nc]
    /\ UNCHANGED <<objs, sImg, dImg>>

\* every point of the line AddLine(i, k/TDen, d) would add to cell c is a
\* number the model holds exactly
ExactLine(c, i, k, d) ==
  IF d = Vertical
    THEN i \in 0 .. c.nx - 2 =>
           \A row \in 0 .. c.ny - 1 :
             /\ Representable(meshGetx(c, i, row), meshGetx(c, i + 1, row), k)
             /\ Representable(meshGety(c, i, row), meshGety(c, i + 1, row), k)
  ELSE d = Horizontal /\ i \in 0 .. c.ny - 2 =>
         \A col \in 0 .. c.nx - 1 :
           /\ Representable(meshGetx(c, col, i), meshGetx(c, col, i + 1), k)
           /\ Representable(meshGety(c, col, i), meshGety(c, col, i + 1), k)

\* err := t.AddLine(i, k/TDen, d)
AddLineCall ==
  \E t \in {"a", "b"}, i \in LineIndices, k \in LineFractions, d \in Directions :
    /\ Ready
    /\ Live(t)
    /\ ExactLine(heap[objs[t].mesh], i, k, d)
    /\ \E res \in {AddLine(heap, objs[t], i, k, d)} :
          /\ heap' = res.heap
          /\ heap0' = heap
          /\ objs' = [objs EXCEPT ![t] = res.m]
          /\ last' = [Called("AddLine", t, ~res.err) EXCEPT
                        !.x = i, !.k = k, !.d = d, !.err = res.err]
    /\ UNCHANGED <<sImg, dImg>>

\* err := t.DeleteLine(i, d)
DeleteLineCall ==
  \E t \in {"a", "b"}, i \in LineIndices, d \in Directions :
    /\ Ready
    /\ Live(t)
    /\ \E res \in {DeleteLine(heap, objs[t], i, d)} :
          /\ heap' = res.heap
          /\ heap0' = heap
          /\ objs' = [objs EXCEPT ![t] = res.m]
          /\ last' = [Called("DeleteLine", t, ~res.err) EXCEPT
                        !.x = i, !.d = d, !.err = res.err]
    /\ UNCHANGED <<sImg, dImg>>

\* t.Free()
MeshFreeCall ==
  \E t \in {"a", "b"} :
    /\ Ready
    /\ Live(t)
    /\ \E res \in {Free(heap, objs[t])} :
          /\ heap' = res.heap
          /\ heap0' = heap
          /\ objs' = [objs EXCEPT ![t] = res.m]
          /\ last' = Called("Free", t, TRUE)
    /\ UNCHANGED <<sImg, dImg>>

\* the caller is done with what the last call returned
MeshDiscard ==
  /\ last.op # "none"
  /\ last' = [NoCall EXCEPT !.n = last.n]
  /\ heap0' = heap
  /\ UNCHANGED <<heap, objs, sImg, dImg>>

MeshNext ==
  \/ NewEmptyMeshCall
  \/ MeshFromPointsCall
  \/ MeshFromImagePointsCall
  \/ CopyCall
  \/ SetCall
  \/ ScaleCall
  \/ FunctionalizeCall
  \/ AddLineCall
  \/ DeleteLineCall
  \/ MeshFreeCall
  \/ NewRegularMeshCall
  \/ ReadMeshCall
  \/ WriteCall
  \/ MeshDiscard

MeshSpec == MeshInit /\ [][MeshNext]_vars

---------------------------------------------------------------------------
(* What the last call was given, read from the state before it *)

\* the libmorph cell of the mesh the last call got as its first, second mesh
ArgCell1 == heap0[objs[last.m1].mesh]

ArgCell2 == heap0[objs[last.m2].mesh]

\* the image the last call got as its first, second image
ArgImg1 == Img(last.i1)

ArgImg2 == Img(last.i2)

\* the last call's fraction lies in [0, 1]
InRange == last.k \in 0 .. TDen

\* the last call's two meshes have the same NX and NY
Compatible == ArgCell1.nx = ArgCell2.nx /\ ArgCell1.ny = ArgCell2.ny

\* the last call's two meshes have the same points
SamePoints == Compatible /\ ArgCell1.x = ArgCell2.x /\ ArgCell1.y = ArgCell2.y

\* the caller's meshes a and b are as they were before the last call
MeshesUnchanged ==
  /\ heap[objs.a.mesh] = heap0[objs.a.mesh]
  /\ heap[objs.b.mesh] = heap0[objs.b.mesh]

\* the last call was a Morph that returned an image
MorphDone == last.op = "Morph" /\ ~last.err /\ ~last.panic

---------------------------------------------------------------------------
(* Mesh interpolation *)

\* C1: for compatible meshes m1, m2 and t in [0,1], InterpolateMeshes returns
\* a new mesh with the same NX and NY whose every coordinate is
\* (1-t)*m1[i] + t*m2[i]; it equals m1 at t = 0 and m2 at t = 1, and m1 and
\* m2 are left unchanged.
C1_InterpolateLinear ==
  (last.op = "InterpolateMeshes" /\ InRange /\ Compatible) =>
    /\ ~last.err
    /\ last.mesh = objs.r
    /\ last.mesh.mesh \in Handles
    /\ heap0[last.mesh.mesh] = FreeCell
    /\ last.mesh.mesh \notin {objs.a.mesh, objs.b.mesh}
    /\ last.mesh.NX = objs[last.m1].NX /\ last.mesh.NY = objs[last.m1].NY
    /\ last.mesh.NX = objs[last.m2].NX /\ last.mesh.NY = objs[last.m2].NY
    /\ LET out == heap[last.mesh.mesh]
       IN /\ IsMesh(out)
          /\ out.nx = last.mesh.NX /\ out.ny = last.mesh.NY
          /\ Len(out.x) = out.nx * out.ny /\ Len(out.y) = out.nx * out.ny
          /\ \A i \in 1 .. out.nx * out.ny :
               /\ TDen * out.x[i] = (TDen - last.k) * ArgCell1.x[i] + last.k * ArgCell2.x[i]
               /\ TDen * out.y[i] = (TDen - last.k) * ArgCell1.y[i] + last.k * ArgCell2.y[i]
          /\ last.k = 0 => out.x = ArgCell1.x /\ out.y = ArgCell1.y
          /\ last.k = TDen => out.x = ArgCell2.x /\ out.y = ArgCell2.y
    /\ MeshesUnchanged

\* C1 happens: two meshes with different points interpolated strictly between them
C1_Witness ==
  /\ last.op = "InterpolateMeshes" /\ ~last.err
  /\ 0 < last.k /\ last.k < TDen
  /\ last.m1 # last.m2
  /\ ArgCell1.x # ArgCell2.x
  /\ heap[last.mesh.mesh].x # ArgCell1.x /\ heap[last.mesh.mesh].x # ArgCell2.x

\* C2: InterpolateMeshes and Warp return an error and no result when t < 0,
\* t > 1 or the meshes differ in NX or NY; t is never clamped; nothing is
\* allocated, the caller's meshes are unchanged and the library never gets
\* the image.
C2_RefusedCallsReturnNothing ==
  (last.op \in {"InterpolateMeshes", "Warp"} /\ (~InRange \/ ~Compatible)) =>
    /\ last.err
    /\ last.mesh = NilMesh
    /\ last.op = "InterpolateMeshes" => objs.r = NilMesh
    /\ last.img = NoImage
    /\ last.lib = << >>
    /\ heap = heap0
    /\ MeshesUnchanged

\* C2 happens: Warp called on compatible meshes with t just above 1
C2_Witness ==
  /\ last.op = "Warp" /\ last.k > TDen /\ Compatible /\ SamePoints
  /\ last.err /\ last.img = NoImage

---------------------------------------------------------------------------
(* Morphing *)

\* coordinates of Interpolate(m1, m2, k/TDen) for the cells c1, c2
TargetOf(c1, c2, k) ==
  [x |-> [i \in 1 .. Len(c1.x) |-> ((TDen - k) * c1.x[i] + k * c2.x[i]) \div TDen],
   y |-> [i \in 1 .. Len(c1.y) |-> ((TDen - k) * c1.y[i] + k * c2.y[i]) \div TDen]]

\* C3: Morph blends Warp(srcImg, srcMesh, target, 1) with Warp(dstImg,
\* dstMesh, target, 1), target = Interpolate(srcMesh, dstMesh, t): the library
\* warps the source image from srcMesh and the destination image from
\* dstMesh, both onto the same target mesh.
C3_BothWarpedOntoTarget ==
  (MorphDone /\ InRange) =>
    LET target == TargetOf(ArgCell1, ArgCell2, last.k)
    IN /\ Len(last.lib) = 2
       /\ last.lib[1].pix = sImg.Pix
       /\ last.lib[1].sx = ArgCell1.x /\ last.lib[1].sy = ArgCell1.y
       /\ last.lib[1].dx = target.x /\ last.lib[1].dy = target.y
       /\ last.lib[2].pix = ArgImg2.Pix
       /\ last.lib[2].sx = ArgCell2.x /\ last.lib[2].sy = ArgCell2.y
       /\ last.lib[2].dx = target.x /\ last.lib[2].dy = target.y

\* the pixels of the last Morph's result that both warped images have
BlendedPixels ==
  {i \in 1 .. Len(last.img.Pix) :
     InRect(last.dWarp.Rect, PixX(last.img.Rect, i), PixY(last.img.Rect, i))}

\* pixel i of the result, read from the warped image w
WarpedAt(w, i) ==
  w.Pix[PixIndex(w.Rect, PixX(last.img.Rect, i), PixY(last.img.Rect, i))]

\* out is n/d rounded to the nearest integer, a tie going up (n >= 0, d > 0)
IsRounded(out, n, d) == 2 * d * out <= 2 * n + d /\ 2 * n + d < 2 * d * (out + 1)

\* channel values the end cases of avgU8 are tried on
ChannelSamples == {0, 1, 2, 127, 128, 254, MaxU8}

\* C4: every channel of every pixel of a Morph result is (1-t)*s + t*d
\* rounded to the nearest integer, ties away from zero, and lies in 0..255,
\* s and d the channel in the warped source and warped destination; and
\* avgU8(a, b, 0) = a, avgU8(a, b, 1) = b, avgU8(a, a, t) = a.
C4_BlendRounded ==
  (MorphDone /\ InRange) =>
    /\ last.img.Rect = last.sWarp.Rect
    /\ \A i \in BlendedPixels : \A c \in 1 .. 4 :
         /\ last.img.Pix[i][c] \in 0 .. MaxU8
         /\ IsRounded(last.img.Pix[i][c],
                      (TDen - last.k) * WarpedAt(last.sWarp, i)[c]
                        + last.k * WarpedAt(last.dWarp, i)[c], TDen)
    /\ \A a \in ChannelSamples, b \in ChannelSamples :
         /\ avgU8(a, b, 0) = a
         /\ avgU8(a, b, TDen) = b
         /\ avgU8(a, a, last.k) = a
         /\ avgU8(a, b, last.k) \in 0 .. MaxU8
         /\ IsRounded(avgU8(a, b, last.k), (TDen - last.k) * a + last.k * b, TDen)

\* C4 happens: a blend strictly between the images with a channel exactly
\* half way between two integers
C4_Witness ==
  /\ MorphDone /\ 0 < last.k /\ last.k < TDen
  /\ \E i \in BlendedPixels : \E c \in 1 .. 4 :
       /\ (2 * ((TDen - last.k) * WarpedAt(last.sWarp, i)[c]
                  + last.k * WarpedAt(last.dWarp, i)[c])) % (2 * TDen) = TDen
       /\ last.img.Pix[i][c] > WarpedAt(last.sWarp, i)[c]

\* C5: Morph(img, img, m, m, t) is the identity for every t in [0,1]: it
\* returns an image whose every pixel equals the pixel of img.
C5_SelfMorphSameMeshIdentity ==
  (last.op = "Morph" /\ InRange /\ ArgImg2 = sImg /\ last.m2 = last.m1) =>
    /\ ~last.err /\ ~last.panic
    /\ last.img.Rect = sImg.Rect
    /\ last.img.Pix = sImg.Pix

C7_MorphRefusesDifferentBounds ==
  last.op = "Morph" =>
    /\ sImg.Rect # ArgImg2.Rect => (last.err \/ last.panic) /\ last.img = NoImage
    /\ MorphDone => last.img.Rect = sImg.Rect /\ last.img.Rect = ArgImg2.Rect

\* C8: Morph works on any pair of image types: images of different or
\* non-native types are converted to the canonical 4-channel type and
\* blended, and the call neither fails nor panics.
C8_MorphAnyImageTypes ==
  (last.op = "Morph" /\ InRange /\ Compatible /\ sImg.Rect = ArgImg2.Rect) =>
    /\ ~last.err /\ ~last.panic
    /\ last.img.Rect = sImg.Rect
    /\ (sImg.type # ArgImg2.type \/ sImg.type \notin Morphable) => last.img.type = "NRGBA"

---------------------------------------------------------------------------
(* Warping *)

\* C9: Warp(img, src, dst, 0) returns the same image as Warp(img, src, src,
\* t') for any t' in [0,1]: at t = 0 the interpolated target has the points
\* of src, so the library is handed the same pixels and the same two meshes.
C9_WarpZeroIsSrcToSrc ==
  (last.op = "Warp" /\ last.k = 0 /\ Compatible) =>
    /\ ~last.err
    /\ \A k2 \in 0 .. TDen : \A sel2 \in LibChoices :
         \E self \in {Warp(heap0, ArgImg1, objs[last.m1], objs[last.m1], k2, sel2)} :
           /\ ~self.err
           /\ self.lib = last.lib
           /\ self.img = last.img

\* C9 happens: an image warped with t = 0 towards a mesh with other points
C9_Witness ==
  /\ last.op = "Warp" /\ last.k = 0 /\ ~last.err
  /\ Compatible /\ ~SamePoints
  /\ Len(last.lib) = 1
  /\ last.img.Pix = last.lib[1].pix

\* C10: a successful Warp returns an image with the bounds of its input; an
\* input of a type with its own 1-channel or 4-channel path keeps its type,
\* an input of any other colour model is converted pixel by pixel to the
\* canonical 4-channel type, warped and returned in that type.
C10_WarpBoundsAndType ==
  (last.op = "Warp" /\ ~last.err) =>
    /\ last.img.Rect = ArgImg1.Rect
    /\ Len(last.img.Pix) = NPix(ArgImg1.Rect)
    /\ Len(last.lib) = 1
    /\ ArgImg1.type \in Native =>
         /\ last.img.type = ArgImg1.type
         /\ last.lib[1].pix = ArgImg1.Pix
         /\ last.lib[1].nchan = NChan(ArgImg1.type)
         /\ \A i \in 1 .. Len(last.img.Pix) : Len(last.img.Pix[i]) = NChan(ArgImg1.type)
    /\ ArgImg1.type \notin Native =>
         /\ last.img.type = "NRGBA"
         /\ last.lib[1].nchan = 4
         /\ Len(last.lib[1].pix) = NPix(ArgImg1.Rect)
         /\ \A i \in 1 .. NPix(ArgImg1.Rect) :
              last.lib[1].pix[i] = ToNRGBA(ArgImg1.type, ArgImg1.Pix[i])
         /\ \A i \in 1 .. Len(last.img.Pix) : Len(last.img.Pix[i]) = 4

\* C10 happens: a 16-bit gray image warped along meshes with different points
C10_Witness ==
  /\ last.op = "Warp" /\ ~last.err /\ ~SamePoints /\ last.k = TDen
  /\ ArgImg1.type = "Gray16"
  /\ last.img.type = "NRGBA"
  /\ last.img.Rect = ArgImg1.Rect

---------------------------------------------------------------------------
(* Editing meshes: what the last call was given *)

\* the mesh the last call was made on, as the Go value and as the library's
\* cell, before the call and now
Mesh0 == last.mesh

Cell0 == heap0[last.mesh.mesh]

MeshNow == objs[last.m1]

CellNow == heap[objs[last.m1].mesh]

\* the caller's other mesh
Other(t) == IF t = "a" THEN "b" ELSE "a"

\* the last call returned normally
Returned == ~last.err /\ ~last.panic

---------------------------------------------------------------------------
(* Mesh dimensions *)

\* C11: every mesh the caller holds has NX >= 4 and NY >= 4, in the Go value
\* and in the library's storage, whatever constructor built it and whatever
\* edits followed.
C11_DimensionsAtLeastFour ==
  \A t \in {"a", "b"} :
    Live(t) => /\ objs[t].NX >= MinDim
               /\ objs[t].NY >= MinDim
               /\ heap[objs[t].mesh].nx >= MinDim
               /\ heap[objs[t].mesh].ny >= MinDim

---------------------------------------------------------------------------
(* Building a mesh from points and reading the points back *)

---------------------------------------------------------------------------
(* Copies *)

\* the Go fields NX, NY of mesh value m are the dimensions of its storage in h
Consistent(h, m) == m.NX = h[m.mesh].nx /\ m.NY = h[m.mesh].ny

\* the calls that edit or release one mesh
Edits == {"Set", "Scale", "Functionalize", "AddLine", "DeleteLine", "Free"}

---------------------------------------------------------------------------
(* Adding and deleting lines *)

\* the last call's line index lies in 0 .. N - off, N being the mesh's NX
\* (Vertical) or NY (Horizontal) before the call
IndexWithin(off) ==
  \/ last.d = Vertical /\ last.x \in 0 .. Mesh0.NX - off
  \/ last.d = Horizontal /\ last.x \in 0 .. Mesh0.NY - off

\* C14: AddLine(i, f, d) returns an error exactly when d is neither Vertical
\* nor Horizontal, or i lies outside [0, NX-2] (Vertical) or [0, NY-2]
\* (Horizontal), or f lies outside [0, 1]; when it returns an error the mesh
\* is as it was.
C14_AddLineErrors ==
  last.op = "AddLine" =>
    /\ last.err <=> ~(IndexWithin(2) /\ last.k \in 0 .. TDen)
    /\ last.err => CellNow = Cell0 /\ MeshNow = Mesh0

\* AddLine refused a fraction above 1 for an existing line and left the
\* mesh alone
C14_Witness ==
  /\ last.op = "AddLine"
  /\ last.err
  /\ IndexWithin(2)
  /\ last.k > TDen
  /\ CellNow = Cell0

\* the point at column col, row row of cell c
PointAt(c, col, row) == <<meshGetx(c, col, row), meshGety(c, col, row)>>

\* line j of cell c, direction d: a column's points from the top down, or a
\* row's points from the left
Line(c, j, d) ==
  IF d = Vertical THEN [n \in 1 .. c.ny |-> PointAt(c, j, n - 1)]
                  ELSE [n \in 1 .. c.nx |-> PointAt(c, n - 1, j)]

\* how many lines of direction d cell c has
NLines(c, d) == IF d = Vertical THEN c.nx ELSE c.ny

\* how many points a line of direction d of cell c has
LineLen(c, d) == IF d = Vertical THEN c.ny ELSE c.nx

\* p lies the fraction k/TDen of the way from a to b, in x and in y
IsBetween(p, a, b, k) ==
  /\ TDen * p[1] = TDen * a[1] + k * (b[1] - a[1])
  /\ TDen * p[2] = TDen * a[2] + k * (b[2] - a[2])

Undone == DeleteLine(heap, MeshNow, last.x + 1, last.d)

---------------------------------------------------------------------------
(* Reading and writing one point *)

\* the last call's coordinates name a point of the mesh
CoordInRange == last.x \in 0 .. Cell0.nx - 1 /\ last.y \in 0 .. Cell0.ny - 1

\* C18: Get(x, y) and Set(x, y, pt) panic exactly when (x, y) is not a point
\* of the mesh, for every pair of Go ints, those that do not fit 32 bits
\* included; a Set that panics changes nothing; a Set that returns makes
\* Get(x, y) return pt and changes no other point and no dimension.
C18_GetSetBoundsChecked ==
  last.op = "Set" =>
    /\ last.panic <=> ~CoordInRange
    /\ Get(heap0, Mesh0, last.x, last.y).panic <=> ~CoordInRange
    /\ last.panic => heap = heap0
    /\ ~last.panic =>
         /\ Get(heap, MeshNow, last.x, last.y).pt = last.pt
         /\ CellNow.nx = Cell0.nx
         /\ CellNow.ny = Cell0.ny
         /\ \A col \in 0 .. Cell0.nx - 1, row \in 0 .. Cell0.ny - 1 :
              <<col, row>> # <<last.x, last.y>> =>
                PointAt(CellNow, col, row) = PointAt(Cell0, col, row)

---------------------------------------------------------------------------
(* Constructors *)

\* C19: NewEmptyMesh(nx, ny) with nx < 4 or ny < 4 is rejected: it panics or
\* gives the caller no mesh; with nx >= 4 and ny >= 4 it returns a mesh with
\* NX = nx, NY = ny and nx * ny points, all of them (0, 0).
C19_NewEmptyMeshRejectsSmall ==
  last.op = "NewEmptyMesh" =>
    IF last.x < MinDim \/ last.y < MinDim
      THEN last.panic \/ objs.a = NilMesh
    ELSE /\ Returned
         /\ Live("a")
         /\ objs.a.NX = last.x
         /\ objs.a.NY = last.y
         /\ Consistent(heap, objs.a)
         /\ Points(heap, objs.a) = [r \in 1 .. last.y |-> [c \in 1 .. last.x |-> [X |-> 0, Y |-> 0]]]

\* the grid the last call was given has fewer than 4 rows, a row of fewer
\* than 4 points, or two rows of different lengths
BadGrid ==
  \/ Len(last.pts) < MinDim
  \/ \E r \in 1 .. Len(last.pts) : Len(last.pts[r]) < MinDim
  \/ \E r1, r2 \in 1 .. Len(last.pts) : Len(last.pts[r1]) # Len(last.pts[r2])

\* C20: MeshFromPoints and MeshFromImagePoints panic, and give the caller no
\* mesh, exactly when the grid has fewer than 4 rows, fewer than 4 columns
\* or rows of unequal length, whichever row differs.
C20_BadGridsPanic ==
  last.op \in {"MeshFromPoints", "MeshFromImagePoints"} =>
    /\ last.panic <=> BadGrid
    /\ last.panic => heap = heap0 /\ objs.a = Mesh0
    /\ ~last.panic => Live("a") /\ Consistent(heap, objs.a)

\* MeshFromPoints refused a grid of 4 rows whose last row alone is longer
C20_Witness ==
  /\ last.op = "MeshFromPoints"
  /\ last.panic
  /\ Len(last.pts) = MinDim
  /\ \A r \in 1 .. MinDim - 1 : Len(last.pts[r]) = MinDim
  /\ Len(last.pts[MinDim]) > MinDim
  /\ objs.a = NilMesh

---------------------------------------------------------------------------
(* Regular meshes *)

---------------------------------------------------------------------------
(* Scaling *)

\* new is old scaled by n/top and, where that lands on n, moved to n - 1
ScaledFrom(new, old, top, n) ==
  IF old * U(n) = top * U(n) THEN new = U(n - 1) ELSE top * new = old * U(n)

\* C22: Scale(w, h) multiplies every x by one factor and every y by one
\* factor, so that the mesh fits w by h, and moves an x that lands on w to
\* w - 1 and a y that lands on h to h - 1; NX, NY and the stored dimensions
\* are unchanged.
C22_ScaleProportional ==
  last.op = "Scale" =>
    /\ MeshNow = Mesh0
    /\ CellNow.nx = Cell0.nx
    /\ CellNow.ny = Cell0.ny
    /\ MaxOf(Cell0.x) > 0 =>
         \A j \in 1 .. Len(Cell0.x) :
           ScaledFrom(CellNow.x[j], Cell0.x[j], MaxOf(Cell0.x), last.x)
    /\ MaxOf(Cell0.y) > 0 =>
         \A j \in 1 .. Len(Cell0.y) :
           ScaledFrom(CellNow.y[j], Cell0.y[j], MaxOf(Cell0.y), last.y)

\* the mesh with coordinates 0, 0.25, 0.5, 0.75, 1 scaled to w by h, w # h:
\* its x are 0, w/4, w/2, 3w/4 and w - 1, its y 0, h/4, h/2, 3h/4 and h - 1
C22_Witness ==
  /\ last.op = "Scale"
  /\ last.x # last.y
  /\ Points(heap0, Mesh0) = UnitGrid
  /\ {CellNow.x[j] : j \in 1 .. Len(CellNow.x)}
       = {0, Quot(last.x, 4), Quot(last.x, 2), Quot(3 * last.x, 4), U(last.x - 1)}
  /\ {CellNow.y[j] : j \in 1 .. Len(CellNow.y)}
       = {0, Quot(last.y, 4), Quot(last.y, 2), Quot(3 * last.y, 4), U(last.y - 1)}

---------------------------------------------------------------------------
(* Functionalizing *)

\* cell c lies within [0, w) x [0, h), its rows do not decrease in x and its
\* columns do not decrease in y
Functional(c, w, ht) ==
  /\ \A j \in 1 .. Len(c.x) : c.x[j] >= 0 /\ c.x[j] < U(w) /\ c.y[j] >= 0 /\ c.y[j] < U(ht)
  /\ \A col \in 0 .. c.nx - 2, row \in 0 .. c.ny - 1 :
       meshGetx(c, col, row) <= meshGetx(c, col + 1, row)
  /\ \A col \in 0 .. c.nx - 1, row \in 0 .. c.ny - 2 :
       meshGety(c, col, row) <= meshGety(c, col, row + 1)

\* the point (col, row) of cell c is in order: it lies within [0, w) x [0, h),
\* no point to its left in its row has a larger x and no point above it in its
\* column a larger y, those points taken as they are once moved into bounds
InOrder(c, col, row, w, ht) ==
  /\ meshGetx(c, col, row) >= 0
  /\ meshGetx(c, col, row) < U(w)
  /\ meshGety(c, col, row) >= 0
  /\ meshGety(c, col, row) < U(ht)
  /\ \A l \in 0 .. col - 1 : Bounded(meshGetx(c, l, row), w) <= meshGetx(c, col, row)
  /\ \A u \in 0 .. row - 1 : Bounded(meshGety(c, col, u), ht) <= meshGety(c, col, row)

\* the points of Cell0 that CellNow has at another place
Altered ==
  {j \in 1 .. Len(Cell0.x) : CellNow.x[j] # Cell0.x[j] \/ CellNow.y[j] # Cell0.y[j]}

Again == Functionalize(heap, MeshNow, last.x, last.y)

---------------------------------------------------------------------------
(* Writing a mesh file *)

Dist(a, b) == IF a >= b THEN a - b ELSE b - a

\* r is ten times v/TDen rounded to the nearest integer, a tie rounded away
\* from zero
NearestTenth(r, v) ==
  /\ 2 * Dist(r * TDen, 10 * v) <= TDen
  /\ 2 * Dist(r * TDen, 10 * v) = TDen => Dist(r, 0) * TDen > Dist(10 * v, 0)

\* the line of the file for the point of column col, row row (from 0)
PointLine(f, c, col, row) == f[2 + CellAt(c, col, row)]

---------------------------------------------------------------------------
(* Reading a mesh file *)

\* the lines a file of an nx-by-ny mesh cannot do without
Needed(nx, ny) == 2 + nx * ny

\* the file read is the well-formed file followed by tr, cut to n lines
IsCut(tr, n) == last.file = SubSeq(GoodFile \o tr, 1, n)

\* the points of the well-formed file
GoodPoints ==
  [r \in 1 .. MinDim |->
    [c \in 1 .. MinDim |-> [X |-> Quot(25 * (c - 1), 10), Y |-> Quot(15 * (r - 1), 10)]]]

\* the call left the caller without a mesh
NoMeshReturned == last.err /\ objs.a = Mesh0 /\ ~Live("a") /\ heap = heap0

\* C26: ReadMesh on a well-formed file cut to its first n lines fails for
\* every n below 2 + nx*ny, the empty input included, and succeeds from
\* 2 + nx*ny lines on; the mesh returned is the same with no lines after the
\* points, with the lines Write puts there, with part of them or with others.
C26_TruncatedFilesFail ==
  last.op = "ReadMesh" =>
    \A tr \in Trailers : \A n \in 0 .. Len(GoodFile \o tr) :
      IsCut(tr, n) =>
        IF n < Needed(MinDim, MinDim)
          THEN NoMeshReturned
        ELSE /\ ~last.err
             /\ Consistent(heap, objs.a)
             /\ objs.a.NX = MinDim /\ objs.a.NY = MinDim
             /\ Points(heap, objs.a) = GoodPoints

\* a file cut inside the lines that follow the points was read, and a mesh returned
C26_Witness ==
  /\ last.op = "ReadMesh"
  /\ \E tr \in Trailers : Len(tr) > 3 /\ IsCut(tr, Needed(MinDim, MinDim) + 3)
  /\ ~last.err
  /\ Points(heap, objs.a) = GoodPoints

\* ln holds exactly cnt fields, each an integer
ExactlyInts(ln, cnt) == Len(ln) = cnt /\ \A j \in 1 .. cnt : IsInt(ln[j])

\* f starts with the header and a dimension line of an nx-by-ny mesh
HasHead(f, nx, ny) ==
  Len(f) >= 2 /\ f[1] = <<W("M2")>> /\ f[2] = <<I(nx), I(ny)>>

\* the input ends before the header, before the dimension line or, all
\* lines before being as they should, before the last coordinate line
EndsEarly(f) ==
  \/ Len(f) = 0
  \/ Len(f) = 1 /\ f[1] = <<W("M2")>>
  \/ \E nx \in MinDim .. MinDim + 1, ny \in MinDim .. MinDim + 1 :
       /\ HasHead(f, nx, ny)
       /\ Len(f) < Needed(nx, ny)
       /\ \A i \in 3 .. Len(f) : ExactlyInts(f[i], 3)

\* the first line that is not as it should be is a dimension line that does
\* not hold exactly two integers or a coordinate line that does not hold
\* exactly three
Misparsed(f) ==
  \/ Len(f) >= 2 /\ f[1] = <<W("M2")>> /\ ~ExactlyInts(f[2], 2)
  \/ \E nx \in MinDim .. MinDim + 1, ny \in MinDim .. MinDim + 1 :
       /\ HasHead(f, nx, ny)
       /\ \E i \in 3 .. Needed(nx, ny) :
            /\ i <= Len(f)
            /\ ~ExactlyInts(f[i], 3)
            /\ \A j \in 3 .. i - 1 : ExactlyInts(f[j], 3)

\* the error wraps io.EOF
IsEOF == last.err /\ last.kind = "EOF"

\* the error is that of a line that did not parse
IsParseError == last.err /\ last.kind \in {"ErrUnexpectedEOF", "syntax", "count"}

\* C27: ReadMesh fails with an error wrapping io.EOF exactly when the input
\* ends before the header, the dimension line or the nx*ny-th coordinate
\* line, and with a parse error whenever the dimension line does not hold
\* exactly two integers or a coordinate line exactly three (too few fields,
\* too many fields, a field that is no integer); no mesh is returned then.
C27_ReadMeshErrors ==
  last.op = "ReadMesh" =>
    /\ IsEOF <=> EndsEarly(last.file)
    /\ Misparsed(last.file) => IsParseError
    /\ EndsEarly(last.file) \/ Misparsed(last.file) => NoMeshReturned

\* What holds of these errors.  A line is taken as a dimension line when its
\* first two fields are integers and as a coordinate line when its first
\* three are, whatever follows them.
StartsWithInts(ln, cnt) == Len(ln) >= cnt /\ \A j \in 1 .. cnt : IsInt(ln[j])

EndsEarlyAsRead(f) ==
  \/ Len(f) = 0
  \/ Len(f) = 1 /\ f[1] = <<W("M2")>>
  \/ /\ Len(f) >= 2 /\ f[1] = <<W("M2")>> /\ StartsWithInts(f[2], 2)
     /\ f[2][1].n >= MinDim /\ f[2][2].n >= MinDim
     /\ Len(f) < Needed(f[2][1].n, f[2][2].n)
     /\ \A i \in 3 .. Len(f) : StartsWithInts(f[i], 3)

MisparsedAsRead(f) ==
  \/ Len(f) >= 2 /\ f[1] = <<W("M2")>> /\ ~StartsWithInts(f[2], 2)
  \/ /\ Len(f) >= 2 /\ f[1] = <<W("M2")>> /\ StartsWithInts(f[2], 2)
     /\ f[2][1].n >= MinDim /\ f[2][2].n >= MinDim
     /\ \E i \in 3 .. Needed(f[2][1].n, f[2][2].n) :
          /\ i <= Len(f)
          /\ ~StartsWithInts(f[i], 3)
          /\ \A j \in 3 .. i - 1 : StartsWithInts(f[j], 3)

ReadMeshErrorsAsRead ==
  last.op = "ReadMesh" =>
    /\ IsEOF <=> EndsEarlyAsRead(last.file)
    /\ MisparsedAsRead(last.file) <=> IsParseError
    /\ EndsEarlyAsRead(last.file) \/ MisparsedAsRead(last.file) => NoMeshReturned

\* a file whose dimension line holds a third field was read
ExtraFieldRead ==
  /\ last.op = "ReadMesh"
  /\ Len(last.file) >= 2 /\ Len(last.file[2]) > 2
  /\ ~last.err

---------------------------------------------------------------------------
(* Writing a mesh and reading it back *)

\* n/10 is within 0.05 of v/TDen
WithinHalfTenth(n, v) == Dist(2 * n * TDen, 20 * v) <= TDen

---------------------------------------------------------------------------
(* Exported dimensions and storage dimensions *)

\* C29: in every reachable state the exported NX and NY of a mesh equal the
\* dimensions of its libmorph storage.
C29_DimensionsMatchStorage ==
  \A t \in {"a", "b"} : Live(t) => Consistent(heap, objs[t])

\* What holds: a mesh built from points, read from a file or copied has the
\* dimensions of its storage, and so has a mesh after AddLine or DeleteLine
\* when the line was added or deleted or when the mesh had them before.
DimensionsMatchAfterCall ==
  /\ last.op \in {"MeshFromPoints", "MeshFromImagePoints", "NewRegularMesh", "ReadMesh"}
       /\ Returned => Consistent(heap, objs.a)
  /\ last.op = "Copy" /\ Returned => Consistent(heap, objs[Other(last.m1)])
  /\ last.op \in {"AddLine", "DeleteLine"} /\ (~last.err \/ Consistent(heap0, Mesh0))
       => Consistent(heap, MeshNow)

\* NewEmptyMesh was asked for a mesh below 4x4 and libmorph made one of 4 lines
DimensionsDiffer ==
  /\ last.op = "NewEmptyMesh"
  /\ Live("a")
  /\ ~Consistent(heap, objs.a)

---------------------------------------------------------------------------
(* Meshes allocated by Warp and Morph *)

\* the caller's meshes that have storage
Held == {objs[t].mesh : t \in {"a", "b", "r"}} \ {NilHandle}

\* the meshes libmorph has allocated and not released
Allocated == {p \in Handles : heap[p].tag # "free"}

\* C30: every mesh Warp or Morph allocates is released before the call
\* returns: the meshes allocated are those the caller created and has not freed.
C30_NoMeshLeaked == Cardinality(Allocated) = Cardinality(Held)

\* What holds: the meshes allocated beyond the caller's are the targets of
\* the Warp calls that succeeded, which nothing refers to any more.
OnlyTargetsLeaked ==
  /\ Held \subseteq Allocated
  /\ \A p \in Allocated \ Held : heap[p] = LostCell
  /\ last.op = "InterpolateMeshes" \/ (last.op = "Warp" /\ last.err)
       => Allocated \ Held = {p \in Handles : heap0[p].tag # "free"} \ Held

\* Warp returned an image and left its target mesh allocated
TargetLeaked ==
  /\ last.op = "Warp"
  /\ ~last.err
  /\ \E p \in Allocated \ Held : heap0[p].tag = "free"

====
